---------------------------- MODULE Spec2Model ----------------------------
(***************************************************************************)
(* helltime: the reminder engine of the main window (App), its Fired       *)
(* Registry, the catch-up on category enable, the panic-stop subsystem and *)
(* the overlay window's visibility.  Times are milliseconds, as Date.now()  *)
(* gives them, counted from the midnight before the first occurrence.      *)
(***************************************************************************)
EXTENDS Integers, Sequences, FiniteSets, TLC

(***************************************************************************)
(* Program constants.                                                      *)
(***************************************************************************)
types == <<"helltide", "legion", "world_boss">>

Types == {types[n] : n \in 1..Len(types)}

fireWindowMs == 30000

MinuteMs == 60000

RetentionMs == 1000 * 60 * 60 * 12

WatchdogGraceMs == 5000

WatchdogTripCount == 3

\* null / undefined, and a value that is present
None == << >>

Some(x) == <<x>>

NaN == -1

(***************************************************************************)
(* Bounds of the model.                                                    *)
(***************************************************************************)
\* how many of the instants of Instants the clock may visit
MaxInstant == 11

\* user events (toggles, edits, refreshes, restarts, resets) in one run
MaxEvents == 2

\* delayed speech timers pending at once
MaxPendingSpeech == 1

\* asynchronous overlay operations in flight at once
MaxAsync == 1

\* callers suspended in await ensureOverlayWindow() at once
MaxCalls == 2

\* the length of the occurrence lists and the number of registry entries
\* the pure functions are applied to
MaxLen == 3

(***************************************************************************)
(* The environment: the wall clock and the Schedule Source.                *)
(***************************************************************************)
\* start of the first occurrence
S1 == 120 * MinuteMs

\* start of the second occurrence, one hour later
S2 == S1 + 60 * MinuteMs

\* the instants at which something (a tick, a click) can happen
Instants ==
  << S1 - 30 * MinuteMs - 1000,
     S1 - 30 * MinuteMs,
     S1 - 30 * MinuteMs + fireWindowMs,
     S1 - 30 * MinuteMs + fireWindowMs + 1,
     S1 - 10 * MinuteMs + 5000,
     S1 - 10 * MinuteMs + 40000,
     S1 - 5 * MinuteMs,
     S1 - 3 * MinuteMs,
     S1,
     S2 - 5 * MinuteMs + 10000,
     S1 - 5 * MinuteMs + RetentionMs + 60000,
     S1 - 5 * MinuteMs + RetentionMs + 120000 >>

\* a click lands this long after the last tick
NowSkews == {400}

\* what fetchSchedule() can answer: per type a list of {id, startTime};
\* an id always names the same occurrence
\* a startTime is an ISO string: one that parses to ms, or garbage
Iso(ms) == [valid |-> TRUE, ms |-> ms]

Garbage == [valid |-> FALSE, ms |-> 0]

Occ(id, startTime) == [id |-> id, startTime |-> startTime]

Schedules ==
  { [helltide |-> <<Occ(1, Iso(S1)), Occ(2, Iso(S2))>>,
     legion |-> <<Occ(1, Iso(S1))>>,
     world_boss |-> <<>>],
    [helltide |-> <<Occ(3, Garbage), Occ(2, Iso(S2))>>,
     legion |-> <<Occ(1, Iso(S1))>>,
     world_boss |-> <<>>] }

\* an answer with occurrences 20 minutes apart, closer than a lead time
CloseSchedules ==
  { [helltide |-> <<Occ(1, Iso(S1)), Occ(5, Iso(S1 + 20 * MinuteMs))>>,
     legion |-> <<Occ(1, Iso(S1)), Occ(5, Iso(S1 + 20 * MinuteMs))>>,
     world_boss |-> <<>>] }

\* lead times a timer can be set to
LeadChoices == {10, 30}

\* the presentation channels of the machine: window.AudioContext exists and
\* constructs, window.speechSynthesis exists, and the overlay window is
\* "ok", "unreachable" (it cannot be created, events to it are lost) or
\* "rejects" (emitTo to it rejects)
Working == [audio |-> TRUE, speech |-> TRUE, overlay |-> "ok"]

\* every channel works, or exactly one is down
OneChannelDown ==
  { Working,
    [Working EXCEPT !.audio = FALSE],
    [Working EXCEPT !.speech = FALSE],
    [Working EXCEPT !.overlay = "unreachable"],
    [Working EXCEPT !.overlay = "rejects"] }

(***************************************************************************)
(* Settings (lib/settings).                                                *)
(***************************************************************************)
Timer(minutesBefore, ttsEnabled, beepPattern) ==
  [minutesBefore |-> minutesBefore, ttsEnabled |-> ttsEnabled,
   beepPattern |-> beepPattern]

defaultTimers ==
  << Timer(30, TRUE, "beep"), Timer(10, FALSE, "double"),
     Timer(5, FALSE, "triple") >>

\* the default volume, in percent
defaultVolume == 80

defaultCategory(enabled) ==
  [enabled |-> enabled, timerCount |-> 3, timers |-> defaultTimers]

\* settings a previous session can have left in storage: the default
\* timers, the 5-minute timer with TTS
StoredTimers == [defaultTimers EXCEPT ![3].ttsEnabled = TRUE]

StoredSettings(overlayWindowEnabled) ==
  { [categories |-> [t \in Types |->
        IF t = "helltide"
        THEN [defaultCategory(en) EXCEPT !.timers = StoredTimers]
        ELSE [enabled |-> t = "legion", timerCount |-> 1,
              timers |-> defaultTimers]],
     soundEnabled |-> TRUE,
     volume |-> defaultVolume,
     overlayWindowEnabled |-> overlayWindowEnabled,
     overlayWindowMode |-> "toast"] :
    en \in BOOLEAN }

\* the categories the user toggles and edits
UserTypes == {"helltide"}

(***************************************************************************)
(* Pure helpers of App.                                                    *)
(***************************************************************************)
\* new Date(item.startTime).getTime(): NaN for an unparseable startTime
DateGetTime(startTime) == IF startTime.valid THEN startTime.ms ELSE NaN

IsFinite(x) == x # NaN

\* the loop of findNext over items[from..], carrying best
RECURSIVE findNextFrom(_, _, _, _)
findNextFrom(items, from, now_, best) ==
  IF from > Len(items) THEN best
  ELSE LET item == items[from]
           startMs == DateGetTime(item.startTime)
       IN IF ~IsFinite(startMs) THEN findNextFrom(items, from + 1, now_, best)
          ELSE IF startMs <= now_ THEN findNextFrom(items, from + 1, now_, best)
          ELSE IF best = None \/ startMs < DateGetTime(best[1].startTime)
               THEN findNextFrom(items, from + 1, now_, Some(item))
               ELSE findNextFrom(items, from + 1, now_, best)

\* fault: the first future item instead of the earliest
findNextFirstFuture(items, now_) ==
  LET future == {n \in 1..Len(items) :
                   /\ IsFinite(DateGetTime(items[n].startTime))
                   /\ DateGetTime(items[n].startTime) > now_}
  IN IF future = {} THEN None
     ELSE Some(items[CHOOSE n \in future : \A m \in future : n <= m])

\* fault: the latest future item instead of the earliest
findNextLatest(items, now_) ==
  LET future == {n \in 1..Len(items) :
                   /\ IsFinite(DateGetTime(items[n].startTime))
                   /\ DateGetTime(items[n].startTime) > now_}
  IN IF future = {} THEN None
     ELSE Some(items[CHOOSE n \in future :
                       \A m \in future :
                          DateGetTime(items[m].startTime)
                            <= DateGetTime(items[n].startTime)])

findNext(items, now_) == findNextFrom(items, 1, now_, None)

\* the registry key `${type}:${id}:${i}`
FiredKey(type, id, i) == <<type, id, i>>

\* firedRef.current[key] is truthy
HasFired(map, key) == key \in DOMAIN map /\ map[key] # 0

\* fault: an entry exactly 12 hours old is dropped
pruneFiredStrict(map, now_) ==
  LET keepAfter == now_ - RetentionMs
      keep == {k \in DOMAIN map : map[k] > keepAfter}
  IN [k \in keep |-> map[k]]

\* fault: a retention of ten minutes
pruneFiredShort(map, now_) ==
  LET keepAfter == now_ - 10 * MinuteMs
      keep == {k \in DOMAIN map : map[k] >= keepAfter}
  IN [k \in keep |-> map[k]]

pruneFired(map, now_) ==
  LET keepAfter == now_ - RetentionMs
      keep == {k \in DOMAIN map : map[k] >= keepAfter}
  IN [k \in keep |-> map[k]]

\* what localStorage holds under helltime:fired_v3, and what JSON.parse
\* makes of it: the kinds are "object" (with its entries), "null",
\* "number", and "unparseable" (a text JSON.parse throws on)
Json(kind, map) == [kind |-> kind, map |-> map]

\* JSON.stringify of the registry into localStorage
saveFired(map) == Some(Json("object", map))

\* fault: the stored registry is not read back
loadFiredEmpty(stored) == Json("object", << >>)

\* the item is missing: {}; JSON.parse throws: {}; otherwise what it parses to
loadFired(stored) ==
  IF stored = None THEN Json("object", << >>)
  ELSE IF stored[1].kind = "unparseable" THEN Json("object", << >>)
  ELSE stored[1]

\* fault: the legacy item is never read
RawFiredCurrentOnly(current, legacy) == current

\* localStorage.getItem(FIRED_KEY) ?? localStorage.getItem(OLD_FIRED_KEY)
RawFired(current, legacy) == IF current # None THEN current ELSE legacy

\* Object.entries(value) throws a TypeError on null
EntriesThrows(value) == value.kind = "null"

\* Object.entries(value): the entries of an object, none of a number
ObjectEntries(value) == IF value.kind = "object" THEN value.map ELSE << >>

(***************************************************************************)
(* State.                                                                  *)
(***************************************************************************)
VARIABLES
  clockIdx,          \* Date.now() is Instants[clockIdx]
  now,               \* App: the now state, set by the 1 Hz interval
  schedule,          \* App: the schedule state, None until a fetch succeeds
  refreshInFlight,   \* App: refreshInFlightRef
  settings,          \* App: the settings state
  firedRef,          \* App: firedRef.current, key -> timestamp
  panicStopEnabled,  \* App: the panicStopEnabled state
  store,             \* localStorage: the registry, the panic flag, the settings
  watchdog,          \* safety.ts: watchdogTimer, watchdogBadCount, watchdogArmedAt
  pendingSpeech,     \* window.setTimeout(speak) timers not yet expired
  async,             \* overlay operations suspended at an await or a timer
  overlay,           \* the overlay webview window: exists, visible
  fired,             \* the fire events of the last handler
  fx,                \* the side effects started by the last handler
  fireCount,         \* per key that fired, how often the dispatcher was
                     \* triggered for it (up to 2)
  firedBefore,       \* the keys fired before the last restart
  budget,            \* the user events so far
  failed,            \* ErrorBoundary: state.failed, App is unmounted
  error,             \* App: the error state, None or the message
  outstanding,       \* fetchSchedule() promises of this page not yet settled
  autoRefreshTimer,  \* App: the pending timeouts of scheduleNextAutoRefresh
  call,              \* a pure function under test and its arguments
  ret,               \* what the call returned
  channels,          \* the presentation channels this machine offers
  cues,              \* the audio cues and speech timers of the last handler
  trace,             \* what the last handler did for its fire events, in
                     \* program order
  broadcasts,        \* the broadcasts of the settings that updateSettings and
                     \* the mount effect have started and that have not yet
                     \* emitted their event
  ensure             \* overlay_window: the in-flight marker of
                     \* ensureOverlayWindow, the creations it has started and
                     \* the callers awaiting them

vars ==
  << clockIdx, now, schedule, refreshInFlight, settings, firedRef,
     panicStopEnabled, store, watchdog, pendingSpeech, async, overlay,
     fired, fx, fireCount, firedBefore, budget, failed, error, outstanding,
     autoRefreshTimer, call, ret, channels, cues, trace, broadcasts,
     ensure >>

Slots == 0..2

Min(a, b) == IF a < b THEN a ELSE b

(***************************************************************************)
(* The trigger effect of App (the Trigger Evaluator) and the dispatch.     *)
(***************************************************************************)
\* a user event within the bound
UserEvent == budget < MaxEvents /\ budget' = budget + 1

\* fault: the window test with both bounds exclusive
InFireWindowExclusive(now_, triggerMs) ==
  now_ > triggerMs /\ now_ < triggerMs + fireWindowMs

\* fault: the window test without the upper bound
InFireWindowOpenEnded(now_, triggerMs) == ~(now_ < triggerMs)

\* fault: the window test without the lower bound
InFireWindowNoLowerBound(now_, triggerMs) == ~(now_ > triggerMs + fireWindowMs)

\* fault: a window of one second, the nominal period of the interval
InFireWindowOneSecond(now_, triggerMs) ==
  ~(now_ < triggerMs \/ now_ > triggerMs + 1000)

\* fault: the registry test that never finds the key
NotYetFiredAlways(map, key) == TRUE

\* the window test of the slot loop
InFireWindow(now_, triggerMs) ==
  ~(now_ < triggerMs \/ now_ > triggerMs + fireWindowMs)

\* the registry test of the slot loop
NotYetFired(map, key) == ~HasFired(map, key)

\* fault: the slot loop runs over all three timers
DueSlotAllTimers(type, next, i, now_, category, map) ==
  IF ~InFireWindow(now_, DateGetTime(next.startTime)
                          - category.timers[i + 1].minutesBefore * MinuteMs)
  THEN {}
  ELSE IF ~NotYetFired(map, FiredKey(type, next.id, i)) THEN {}
  ELSE {FiredKey(type, next.id, i)}

\* the body of the slot loop for slot i of category type: the key it fires
DueSlot(type, next, i, now_, category, map) ==
  IF i >= category.timerCount THEN {}
  ELSE IF ~InFireWindow(now_, DateGetTime(next.startTime)
                               - category.timers[i + 1].minutesBefore * MinuteMs)
  THEN {}
  ELSE IF ~NotYetFired(map, FiredKey(type, next.id, i)) THEN {}
  ELSE {FiredKey(type, next.id, i)}

\* the body of the category loop
DueOfType(type, sched, now_, st, map) ==
  LET category == st.categories[type]
      next == findNext(sched[type], now_)
  IN IF ~category.enabled THEN {}
     ELSE IF next = None THEN {}
     ELSE UNION {DueSlot(type, next[1], i, now_, category, map) : i \in Slots}

\* fault: the trigger effect without the test of panicStopEnabled
DueKeysInPanic(sched, now_, st, panic, map) ==
  IF sched = None THEN {}
  ELSE UNION {DueOfType(type, sched[1], now_, st, map) : type \in Types}

\* the keys the trigger effect records and fires; the keys of one run are
\* pairwise different, so the order of the two loops does not matter
DueKeys(sched, now_, st, panic, map) ==
  IF sched = None THEN {}
  ELSE IF panic THEN {}
  ELSE UNION {DueOfType(type, sched[1], now_, st, map) : type \in Types}

\* firedRef.current[key] = at for every key of keys
RecordAll(map, keys, at) ==
  [k \in DOMAIN map \cup keys |-> IF k \in keys THEN at ELSE map[k]]

\* fault: the toast is sent only when the sound is on
showOverlayToastIfSound(st, panic) ==
  IF panic \/ ~st.soundEnabled THEN {}
  ELSE IF st.overlayWindowEnabled
       THEN {[kind |-> "toast", pc |-> "ensure", mode |-> st.overlayWindowMode]}
       ELSE {}

\* showOverlayToast up to its first await: the operations it leaves in flight
showOverlayToast(st, panic) ==
  IF panic THEN {}
  ELSE IF st.overlayWindowEnabled
       THEN {[kind |-> "toast", pc |-> "ensure", mode |-> st.overlayWindowMode]}
       ELSE {}

\* showOverlayToast has entered its overlay branch: the effect
\* "toast-dispatch"
ToastFx(ops) == IF ops = {} THEN {} ELSE {"toast-dispatch"}

\* lib/sound: the length of one tone and of the gap between two
durationMs == 170

gapMs == 140

\* the pause between the end of the audio cue and the speech cue
ttsPauseMs == 500

BeepCount(pattern) ==
  IF pattern = "triple" THEN 3 ELSE IF pattern = "double" THEN 2 ELSE 1

\* scheduleBeep: the tone sounds from startAt for duration_, in ms after
\* the call of playBeep
scheduleBeep(startAt, duration_) == [from |-> startAt, to |-> startAt + duration_]

\* the tones playBeep schedules: none without an AudioContext or at volume 0
BeepTones(pattern, volume) ==
  IF ~channels.audio THEN {}
  ELSE IF volume <= 0 THEN {}
  ELSE {scheduleBeep(10 + i * (durationMs + gapMs), durationMs) :
          i \in 0..(BeepCount(pattern) - 1)}

\* what playBeep returns: totalMs, or 0 without an AudioContext or at
\* volume 0
playBeep(pattern, volume) ==
  IF ~channels.audio THEN 0
  ELSE IF volume <= 0 THEN 0
  ELSE BeepCount(pattern) * durationMs
         + (IF BeepCount(pattern) > 1 THEN BeepCount(pattern) - 1 ELSE 0) * gapMs
         + 50

\* the audio cue of the fire event of key and the timeout of its speech
\* cue, in ms after the dispatch
Cue(key, st) ==
  LET timer == st.categories[key[1]].timers[key[3] + 1]
      beepMs == playBeep(timer.beepPattern, st.volume)
  IN [key |-> key,
      tones |-> BeepTones(timer.beepPattern, st.volume),
      beepMs |-> beepMs,
      speakAfter |-> IF timer.ttsEnabled THEN Some(beepMs + ttsPauseMs) ELSE None]

\* fault: without an AudioContext the rest of the dispatch is skipped
CuesAudioRequired(keys, st) ==
  IF st.soundEnabled /\ channels.audio THEN {Cue(k, st) : k \in keys} ELSE {}

\* if (!settings.soundEnabled) continue
Cues(keys, st) == IF st.soundEnabled THEN {Cue(k, st) : k \in keys} ELSE {}

\* the fire events of keys dispatch an audio cue that sounds
Beeps(keys, st) == \E c \in Cues(keys, st) : c.tones # {}

\* the speech timers the fire events of keys start
SpeechTimers(keys, st) ==
  Cardinality({c \in Cues(keys, st) : c.speakAfter # None})

\* the overlay visibility effect of App: hide at once, or ensure and show
VisibilityHides(st, panic) == panic \/ ~st.overlayWindowEnabled

VisibilityOps(st, panic) ==
  IF VisibilityHides(st, panic) THEN {}
  ELSE {[kind |-> "vis", pc |-> "ensure", mode |-> st.overlayWindowMode]}

\* one operation of a handler for the fire event of key
Op(op, key) == [op |-> op, key |-> key]

\* fault: the fire event is dispatched first and recorded afterwards
FireOpsDispatchFirst(key, st, panic) ==
  (IF showOverlayToast(st, panic) = {} THEN << >> ELSE << Op("toast", key) >>)
    \o (IF ~st.soundEnabled THEN << >>
        ELSE << Op("beep", key) >>
               \o (IF st.categories[key[1]].timers[key[3] + 1].ttsEnabled
                   THEN << Op("timer", key) >> ELSE << >>))
    \o << Op("record", key), Op("save", key) >>

\* the statements of a fire in program order: firedRef.current[key] = now,
\* saveFired, showOverlayToast (if it enters its overlay branch), playBeep,
\* window.setTimeout(speak)
FireOps(key, st, panic) ==
  << Op("record", key), Op("save", key) >>
    \o (IF showOverlayToast(st, panic) = {} THEN << >> ELSE << Op("toast", key) >>)
    \o (IF ~st.soundEnabled THEN << >>
        ELSE << Op("beep", key) >>
               \o (IF st.categories[key[1]].timers[key[3] + 1].ttsEnabled
                   THEN << Op("timer", key) >> ELSE << >>))

\* the position of the fire of key in the two loops: for type of types,
\* for i below timerCount
LoopIndex(key) ==
  3 * (CHOOSE n \in 1..Len(types) : types[n] = key[1]) + key[3]

\* the operations for the fire events of keys, in the order of the loops
RECURSIVE FireTrace(_, _, _)
FireTrace(keys, st, panic) ==
  IF keys = {} THEN << >>
  ELSE LET first == CHOOSE k \in keys :
                      \A h \in keys : LoopIndex(k) <= LoopIndex(h)
       IN FireOps(first, st, panic) \o FireTrace(keys \ {first}, st, panic)

Bump(counts, keys) ==
  IF keys = {} THEN counts
  ELSE [k \in DOMAIN counts \cup keys |->
          IF k \notin DOMAIN counts THEN 1
          ELSE IF k \in keys THEN Min(counts[k] + 1, 2) ELSE counts[k]]

Events(keys, by) == {[key |-> k, by |-> by] : k \in keys}

(***************************************************************************)
(* The overlay settings channel: broadcastOverlayWindowSettings emits the  *)
(* snapshot to the overlay window, whose listener, once registered,        *)
(* reconciles the copy the window holds.  overlay.held is that copy, None  *)
(* until the page of the window has mounted; overlay.listening: the        *)
(* listener is registered.                                                 *)
(***************************************************************************)
\* no overlay window
NoOverlay ==
  [exists |-> FALSE, visible |-> FALSE, listening |-> FALSE, held |-> None]

toOverlayWindowSettings(st) ==
  [enabled |-> st.overlayWindowEnabled, mode |-> st.overlayWindowMode]

\* fault: the listener keeps the mode it holds
ReconcileKeepsMode(held, p) == [enabled |-> p.enabled, mode |-> held.mode]

\* the setSettings of the helltime:overlay-settings listener
Reconcile(held, p) ==
  [enabled |-> p.enabled,
   mode |-> IF p.mode = "toast" THEN "toast" ELSE "overview"]

\* emitTo(overlay, "helltime:overlay-settings", payload): received if the
\* window's listener is registered, lost otherwise
Deliver(ov, p) ==
  IF ov.listening THEN [ov EXCEPT !.held = Some(Reconcile(ov.held[1], p))]
  ELSE ov

\* the effect of a broadcast: the event reaches a listener or nothing
Delivered(ov) == IF ov.listening THEN {"overlay-settings"} ELSE {}

\* a broadcast runs in a microtask and over two awaits before it emits.
\* eager: on this machine it has emitted before the next handler runs;
\* otherwise queue holds the settings values the started broadcasts have
\* captured, oldest first
Emitted == [eager |-> TRUE, queue |-> << >>]

Queued(queue) == [eager |-> FALSE, queue |-> queue]

\* queueMicrotask(() => void broadcastOverlayWindowSettings(next))
Enqueue(bc, next) ==
  IF bc.eager THEN bc ELSE [bc EXCEPT !.queue = Append(@, next)]

\* the overlay window and the effect after the broadcast of next was started
Broadcast(bc, ov, next) ==
  IF bc.eager THEN Deliver(ov, toOverlayWindowSettings(next)) ELSE ov

BroadcastFx(bc, ov) == IF bc.eager THEN Delivered(ov) ELSE {}

\* fault: the payload is made of the settings current at the emit
CapturedLatest(captured, current) == current

\* the settings a broadcast makes its payload of: the value of next when
\* updateSettings queued the microtask
Captured(captured, current) == captured

(***************************************************************************)
(* A render of App after a handler: the handler has left the registry      *)
(* map0, the fire events ev0 with their effects; the effects of App then   *)
(* run against the new state.  ov0: the overlay window as the handler has  *)
(* left it.  runVis: the visibility effect's dependencies changed.         *)
(***************************************************************************)
\* fault: the fire is recorded in memory only
PersistFireSkipped(store0, map) == store0

\* firedRef.current[key] = now; saveFired(firedRef.current)
PersistFire(store0, map) == [store0 EXCEPT !.fired = saveFired(map)]

Render(map0, store0, ev0, fx0, speech0, async0, ov0, now1, sched1, st1, panic1, runVis) ==
  LET due == DueKeys(sched1, now1, st1, panic1, map0)
      map1 == RecordAll(map0, due, now1)
      toast == IF due = {} THEN {} ELSE showOverlayToast(st1, panic1)
      vis == IF runVis THEN VisibilityOps(st1, panic1) ELSE {}
      keys0 == {e.key : e \in ev0}
  IN /\ Cardinality(async0 \cup toast \cup vis) <= MaxAsync
     /\ firedRef' = map1
     /\ store' = IF due = {} THEN store0 ELSE PersistFire(store0, map1)
     /\ fired' = ev0 \cup Events(due, "tick")
     /\ cues' = Cues(keys0, st1) \cup Cues(due, st1)
     /\ trace' = FireTrace(keys0, st1, panic1) \o FireTrace(due, st1, panic1)
     /\ fireCount' = Bump(Bump(fireCount, keys0), due)
     /\ fx' = fx0 \cup (IF Beeps(due, st1) THEN {"beep"} ELSE {})
                  \cup ToastFx(toast)
                  \cup (IF runVis /\ VisibilityHides(st1, panic1) THEN {"hide"} ELSE {})
     /\ pendingSpeech' = Min(speech0 + SpeechTimers(due, st1), MaxPendingSpeech)
     /\ async' = async0 \cup toast \cup vis
     /\ overlay' = IF runVis /\ VisibilityHides(st1, panic1)
                   THEN [ov0 EXCEPT !.visible = FALSE]
                   ELSE ov0

(***************************************************************************)
(* Init: the main window has just been loaded for the first time or after  *)
(* earlier sessions; main.tsx has started the watchdog, App has mounted    *)
(* and its first refresh() is in flight.                                   *)
(***************************************************************************)
\* the calls of ensureOverlayWindow of this page.  marker: what
\* globalThis[ENSURE_INFLIGHT_KEY] holds, None or the promise of a creation;
\* running: the creations started and not settled, each the promise it
\* settles and the await it is suspended at; waiting: the operations
\* suspended in await ensureOverlayWindow(), each with the promise it awaits
NoEnsure == [marker |-> None, running |-> {}, waiting |-> {}]

\* the timeouts set by scheduleNextAutoRefresh that have neither expired nor
\* been cleared: held, the one whose id autoRefreshTimeoutRef.current holds;
\* loose, those whose id the ref holds no longer
NoTimer == [held |-> FALSE, loose |-> 0]

\* if (autoRefreshTimeoutRef.current) window.clearTimeout(...)
clearTimeout(timers) == [timers EXCEPT !.held = FALSE]

\* fault: the new timeout is set without clearing the one held
scheduleNextAutoRefreshNoClear(timers) ==
  [held |-> TRUE, loose |-> timers.loose + (IF timers.held THEN 1 ELSE 0)]

\* the timeout held is cleared, a new one is set and held
scheduleNextAutoRefresh(timers) == [clearTimeout(timers) EXCEPT !.held = TRUE]

\* one of the pending timeouts expires: what is left
Expired(timers) ==
  {[timers EXCEPT !.held = FALSE] : x \in IF timers.held THEN {1} ELSE {}}
    \cup {[timers EXCEPT !.loose = @ - 1] : x \in IF timers.loose > 0 THEN {1} ELSE {}}

StartWatchdog(at) ==
  [timer |-> TRUE, badCount |-> 0, armedAt |-> at + WatchdogGraceMs]

\* watchdogArmedAt is read only in Date.now() < watchdogArmedAt: once the
\* clock has passed it the test is false for good, and the model keeps 0
GraceElapsed(w, at) ==
  IF at < w.armedAt THEN w ELSE [w EXCEPT !.armedAt = 0]

\* the page loaded at instant j with the settings st and the registry copy
\* stored in localStorage, no panic flag stored.  The mount effects run in
\* the order of App: the visibility effect, the prune effect, refresh(),
\* the auto-refresh effect.  A throwing prune effect ends the mount: the
\* error boundary unmounts App and calls enablePanicStop.
Mounted0(st, j, stored, legacy) ==
  LET loaded == loadFired(RawFired(stored, legacy))
      crash == EntriesThrows(loaded)
      map == pruneFired(ObjectEntries(loaded), Instants[j])
  IN /\ clockIdx = j
     /\ now = Instants[j]
     /\ schedule = None
     /\ refreshInFlight = ~crash
     /\ outstanding = IF crash THEN 0 ELSE 1
     /\ settings = st
     /\ firedRef = map
     /\ panicStopEnabled = crash
     /\ store = [fired |-> IF crash THEN stored ELSE saveFired(map),
                 firedOld |-> legacy,
                 panic |-> crash, settings |-> st]
     /\ watchdog = [StartWatchdog(Instants[j]) EXCEPT !.timer = ~crash]
     /\ pendingSpeech = 0
     /\ async = VisibilityOps(st, FALSE)
     /\ overlay = NoOverlay
     /\ fired = {}
     /\ cues = {}
     /\ trace = << >>
     /\ fx = {}
     /\ fireCount = << >>
     /\ firedBefore = {}
     /\ budget = 0
     /\ failed = crash
     /\ error = None
     /\ autoRefreshTimer = IF crash THEN NoTimer
                           ELSE scheduleNextAutoRefresh(NoTimer)

\* the first start: nothing stored
Boot0(st, j) ==
  /\ Mounted0(st, j, None, None)
  /\ call = None
  /\ ret = None
  /\ channels = Working
  /\ broadcasts = Emitted
  /\ ensure = NoEnsure

\* the overlay window switched off, the app started before every window
Init == \E st \in StoredSettings(FALSE) : Boot0(st, 1)

\* the app started between the 10-minute and the 5-minute window
LateStart == MaxInstant - 5

InitLate == \E st \in StoredSettings(FALSE) : Boot0(st, LateStart)

\* the same with the overlay window switched on
InitOverlay == \E st \in StoredSettings(TRUE) : Boot0(st, LateStart)

(***************************************************************************)
(* The 1 Hz interval: setNow(Date.now()), then the prune effect and the    *)
(* trigger effect.  The gap to the previous tick is arbitrary.             *)
(***************************************************************************)
\* the callback of the interval runs at the instant at, the j-th of the
\* timeline
TickTo(j, at) ==
  /\ ~failed
  /\ clockIdx' = j
  /\ now' = at
  /\ LET pruned == pruneFired(firedRef, at)
     IN Render(pruned, [store EXCEPT !.fired = saveFired(pruned)], {}, {},
               pendingSpeech, async, overlay, at, schedule, settings,
               panicStopEnabled, FALSE)
  /\ watchdog' = GraceElapsed(watchdog, at)
  /\ UNCHANGED << schedule, refreshInFlight, settings, panicStopEnabled,
                  firedBefore, budget, call, ret, channels, broadcasts, ensure, failed, error, outstanding,
                  autoRefreshTimer >>

Tick(j) ==
  /\ j \in (clockIdx + 1)..MaxInstant
  /\ TickTo(j, Instants[j])

(***************************************************************************)
(* setCategoryEnabled: the Catch-Up Evaluator on enable, then              *)
(* updateSettings.  The click lands skew ms after the last tick.           *)
(***************************************************************************)
\* the slots of the category whose trigger point has passed
Candidates(category, remainingMs) ==
  {i \in Slots : i < category.timerCount
                 /\ category.timers[i + 1].minutesBefore * MinuteMs >= remainingMs}

\* fault: candidates[0] without the sort
ChosenUnsorted(category, cands) ==
  IF cands = {} THEN None
  ELSE Some(CHOOSE i \in cands : \A h \in cands : i <= h)

\* candidates.sort(by minutesBefore)[0]; the sort is stable
Chosen(category, cands) ==
  IF cands = {} THEN None
  ELSE Some(CHOOSE i \in cands :
         \A h \in cands :
            \/ category.timers[i + 1].minutesBefore < category.timers[h + 1].minutesBefore
            \/ /\ category.timers[i + 1].minutesBefore = category.timers[h + 1].minutesBefore
               /\ i <= h)

\* fault: the catch-up without the test of remainingMs > 0
CatchUpKeysAnyRemaining(type, nowMs, sched, now_, st, map) ==
  LET next == IF sched = None THEN None ELSE findNext(sched[1][type], now_)
  IN IF sched = None \/ next = None THEN {}
     ELSE LET startMs == DateGetTime(next[1].startTime)
              remainingMs == startMs - nowMs
              category == st.categories[type]
              chosen == Chosen(category, Candidates(category, remainingMs))
          IN IF ~IsFinite(startMs) THEN {}
             ELSE IF chosen = None THEN {}
             ELSE IF HasFired(map, FiredKey(type, next[1].id, chosen[1])) THEN {}
             ELSE {FiredKey(type, next[1].id, chosen[1])}

\* the key the catch-up records and fires, if any
CatchUpKeys(type, nowMs, sched, now_, st, map) ==
  LET next == IF sched = None THEN None ELSE findNext(sched[1][type], now_)
  IN IF sched = None \/ next = None THEN {}
     ELSE LET startMs == DateGetTime(next[1].startTime)
              remainingMs == startMs - nowMs
              category == st.categories[type]
              chosen == Chosen(category, Candidates(category, remainingMs))
          IN IF ~(IsFinite(startMs) /\ remainingMs > 0) THEN {}
             ELSE IF chosen = None THEN {}
             ELSE IF HasFired(map, FiredKey(type, next[1].id, chosen[1])) THEN {}
             ELSE {FiredKey(type, next[1].id, chosen[1])}

\* updateSettings: the next settings are saved; the broadcast is Deliver
updateSettings(store0, next) == [store0 EXCEPT !.settings = next]

SetCategoryEnabled(type, skew) ==
  /\ ~failed
  /\ UserEvent
  /\ LET enabled == ~settings.categories[type].enabled
         nowMs == now + skew
         keys == IF enabled
                 THEN CatchUpKeys(type, nowMs, schedule, now, settings, firedRef)
                 ELSE {}
         map0 == RecordAll(firedRef, keys, nowMs)
         store0 == IF keys = {} THEN store ELSE PersistFire(store, map0)
         toast == IF keys = {} THEN {} ELSE showOverlayToast(settings, panicStopEnabled)
         next == [settings EXCEPT !.categories[type].enabled = enabled]
     IN /\ settings' = next
        /\ Render(map0, updateSettings(store0, next), Events(keys, "catchup"),
                  (IF Beeps(keys, settings) THEN {"beep"} ELSE {})
                     \cup ToastFx(toast) \cup BroadcastFx(broadcasts, overlay),
                  Min(pendingSpeech + SpeechTimers(keys, settings), MaxPendingSpeech),
                  async \cup toast, Broadcast(broadcasts, overlay, next),
                  now, schedule, next, panicStopEnabled, FALSE)
        /\ broadcasts' = Enqueue(broadcasts, next)
  /\ UNCHANGED << clockIdx, now, schedule, refreshInFlight, panicStopEnabled,
                  watchdog, firedBefore, call, ret, channels, ensure, failed, error, outstanding,
                  autoRefreshTimer >>

(***************************************************************************)
(* The other settings handlers; every one goes through updateSettings and  *)
(* re-runs the effects that depend on the settings.                        *)
(***************************************************************************)
Edit(next, runVis) ==
  /\ ~failed
  /\ UserEvent
  /\ settings' = next
  /\ Render(firedRef, updateSettings(store, next), {},
            BroadcastFx(broadcasts, overlay), pendingSpeech, async,
            Broadcast(broadcasts, overlay, next),
            now, schedule, next, panicStopEnabled, runVis)
  /\ broadcasts' = Enqueue(broadcasts, next)
  /\ UNCHANGED << clockIdx, now, schedule, refreshInFlight, panicStopEnabled,
                  watchdog, firedBefore, call, ret, channels, ensure, failed, error, outstanding,
                  autoRefreshTimer >>

\* the select of an enabled category
SetTimerCount(type, timerCount) ==
  /\ settings.categories[type].enabled
  /\ timerCount # settings.categories[type].timerCount
  /\ Edit([settings EXCEPT !.categories[type].timerCount = timerCount],
          FALSE)

\* the "Minuten vorher" slider of an active timer of an enabled category
UpdateTimerMinutes(type, index, minutesBefore) ==
  /\ settings.categories[type].enabled
  /\ index < settings.categories[type].timerCount
  /\ minutesBefore # settings.categories[type].timers[index + 1].minutesBefore
  /\ Edit([settings EXCEPT
             !.categories[type].timers[index + 1].minutesBefore = minutesBefore],
          FALSE)

\* the TTS checkbox of an active timer of an enabled category
UpdateTimerTts(type, index) ==
  /\ settings.categories[type].enabled
  /\ index < settings.categories[type].timerCount
  /\ Edit([settings EXCEPT !.categories[type].timers[index + 1].ttsEnabled = ~@],
          FALSE)

\* the "Benachrichtigungs-Ton" checkbox, disabled in panic-stop
SetSoundEnabled ==
  /\ ~panicStopEnabled
  /\ Edit([settings EXCEPT !.soundEnabled = ~@], FALSE)

\* the Overlay checkbox, disabled in panic-stop
SetOverlayWindowEnabled ==
  /\ ~panicStopEnabled
  /\ Edit([settings EXCEPT !.overlayWindowEnabled = ~@], TRUE)

\* the Overview / Toast radio buttons
SetOverlayWindowMode(mode) ==
  /\ ~panicStopEnabled
  /\ settings.overlayWindowEnabled
  /\ mode # settings.overlayWindowMode
  /\ Edit([settings EXCEPT !.overlayWindowMode = mode], TRUE)

(***************************************************************************)
(* refresh(): started by the mount effect and by the auto-refresh timeout; *)
(* a call while a fetch is in flight returns at once.  The fetch succeeds  *)
(* with a complete snapshot or fails.                                      *)
(***************************************************************************)
Quiet == /\ fired' = {}
         /\ cues' = {}
         /\ trace' = << >>
         /\ fx' = {}
         /\ UNCHANGED << firedRef, fireCount >>

\* fault: refresh() without the test of refreshInFlightRef
RefreshDroppedNever(inFlight) == FALSE

\* if (refreshInFlightRef.current) return
RefreshDropped(inFlight) == inFlight

\* the timeout of scheduleNextAutoRefresh expires: refresh(); counted: the
\* step counts as one of the events of the run
AutoRefresh(counted) ==
  /\ ~failed
  /\ Expired(autoRefreshTimer) # {}
  /\ IF counted THEN UserEvent ELSE UNCHANGED budget
  /\ autoRefreshTimer' \in Expired(autoRefreshTimer)
  /\ IF RefreshDropped(refreshInFlight)
     THEN UNCHANGED << refreshInFlight, error, outstanding >>
     ELSE /\ refreshInFlight' = TRUE
          /\ error' = None
          /\ outstanding' = outstanding + 1
  /\ Quiet
  /\ UNCHANGED << clockIdx, now, schedule, settings, panicStopEnabled, store,
                  watchdog, pendingSpeech, async, overlay, firedBefore,
                  call, ret, channels, broadcasts, ensure, failed >>

RefreshStart == AutoRefresh(TRUE)

\* fault: the fetched lists are merged into the lists held
FetchOkMerges(data) ==
  LET merged == IF schedule = None THEN data
                ELSE [t \in Types |->
                        schedule[1][t]
                          \o SelectSeq(data[t],
                                LAMBDA o : \A n \in 1..Len(schedule[1][t]) :
                                              schedule[1][t][n].id # o.id)]
  IN /\ outstanding > 0
     /\ outstanding' = outstanding - 1
     /\ refreshInFlight' = FALSE
     /\ schedule' = Some(merged)
     /\ autoRefreshTimer' = IF panicStopEnabled THEN autoRefreshTimer
                          ELSE scheduleNextAutoRefresh(autoRefreshTimer)
     /\ Render(firedRef, store, {}, {}, pendingSpeech, async, overlay, now,
               Some(merged), settings, panicStopEnabled, FALSE)
     /\ UNCHANGED << clockIdx, now, settings, panicStopEnabled, watchdog,
                     firedBefore, budget, call, ret, channels, broadcasts, ensure, failed, error >>

\* fetchSchedule() resolves: setSchedule, setLastRefreshAt, and the effect
\* on lastRefreshAt sets the next auto-refresh timeout unless in panic-stop
FetchOk(data) ==
  /\ outstanding > 0
  /\ outstanding' = outstanding - 1
  /\ refreshInFlight' = FALSE
  /\ schedule' = Some(data)
  /\ autoRefreshTimer' = IF panicStopEnabled THEN autoRefreshTimer
                          ELSE scheduleNextAutoRefresh(autoRefreshTimer)
  /\ Render(firedRef, store, {}, {}, pendingSpeech, async, overlay, now,
            Some(data), settings, panicStopEnabled, FALSE)
  /\ UNCHANGED << clockIdx, now, settings, panicStopEnabled, watchdog,
                  firedBefore, budget, call, ret, channels, broadcasts, ensure, failed, error >>

\* fault: the failed fetch also clears the schedule
FetchFailClears ==
  /\ outstanding > 0
  /\ outstanding' = outstanding - 1
  /\ refreshInFlight' = FALSE
  /\ error' = Some("fetch failed")
  /\ schedule' = None
  /\ Quiet
  /\ UNCHANGED << clockIdx, now, settings, panicStopEnabled, store,
                  watchdog, pendingSpeech, async, overlay, firedBefore, budget,
                  call, ret, channels, broadcasts, ensure, failed, autoRefreshTimer >>

\* fetchSchedule() rejects: setError
FetchFail ==
  /\ outstanding > 0
  /\ outstanding' = outstanding - 1
  /\ refreshInFlight' = FALSE
  /\ error' = Some("fetch failed")
  /\ Quiet
  /\ UNCHANGED << clockIdx, now, schedule, settings, panicStopEnabled, store,
                  watchdog, pendingSpeech, async, overlay, firedBefore, budget,
                  call, ret, channels, broadcasts, ensure, failed, autoRefreshTimer >>

(***************************************************************************)
(* safety.ts: panic-stop and the UI watchdog.                              *)
(***************************************************************************)
\* fault: the stored flag is not read back
isPanicStopEnabledNever(store0) == FALSE

isPanicStopEnabled(store0) == store0.panic

\* fault: the flag is stored, the helltime:panic-stop event is not dispatched
enablePanicStopSilent(w, fx0) ==
  /\ store' = [store EXCEPT !.panic = TRUE]
  /\ watchdog' = [w EXCEPT !.timer = FALSE]
  /\ fx' = fx0
  /\ fired' = {}
  /\ cues' = {}
  /\ trace' = << >>
  /\ UNCHANGED << panicStopEnabled, overlay, firedRef, fireCount,
                  autoRefreshTimer >>

\* enablePanicStop, and the render of App on the helltime:panic-stop event:
\* the visibility effect hides the overlay, the auto-refresh effect clears
\* its timeout, the trigger effect returns; fx0: the effects of the caller
enablePanicStop(w, fx0) ==
  /\ store' = [store EXCEPT !.panic = TRUE]
  /\ autoRefreshTimer' = clearTimeout(autoRefreshTimer)
  /\ watchdog' = [w EXCEPT !.timer = FALSE]
  /\ panicStopEnabled' = TRUE
  /\ overlay' = IF panicStopEnabled THEN overlay
                ELSE [overlay EXCEPT !.visible = FALSE]
  /\ fx' = fx0 \cup (IF panicStopEnabled THEN {} ELSE {"hide"})
  /\ fired' = {}
  /\ cues' = {}
  /\ trace' = << >>
  /\ UNCHANGED << firedRef, fireCount >>

\* fault: a good observation leaves the count as it is
WatchdogCountNoReset(w, ok) ==
  IF ok THEN w ELSE [w EXCEPT !.badCount = @ + 1]

\* watchdogBadCount after an observation of the container
WatchdogCount(w, ok) ==
  IF ok THEN [w EXCEPT !.badCount = 0] ELSE [w EXCEPT !.badCount = @ + 1]

\* one run of the watchdog interval; ok: the container has plausible size.
\* The measurement of the container is the effect "observe_ok" or
\* "observe_bad".
WatchdogTick(ok) ==
  /\ watchdog.timer
  /\ IF isPanicStopEnabled(store) \/ Instants[clockIdx] < watchdog.armedAt
     THEN /\ Quiet
          /\ UNCHANGED << store, watchdog, panicStopEnabled, overlay,
                          autoRefreshTimer >>
     ELSE LET w == WatchdogCount(watchdog, ok)
              seen == {IF ok THEN "observe_ok" ELSE "observe_bad"}
          IN IF ~ok /\ w.badCount >= WatchdogTripCount
             THEN enablePanicStop(w, seen)
             ELSE /\ watchdog' = w
                  /\ fx' = seen
                  /\ fired' = {}
                  /\ cues' = {}
                  /\ trace' = << >>
                  /\ UNCHANGED << firedRef, fireCount, store, panicStopEnabled,
                                  overlay, autoRefreshTimer >>
  /\ UNCHANGED << clockIdx, now, schedule, refreshInFlight, settings,
                  pendingSpeech, async, firedBefore, budget, call, ret, channels, broadcasts, ensure, failed,
                  error, outstanding >>

\* window "error" / "unhandledrejection", ErrorBoundary.componentDidCatch:
\* the effect "error"
ErrorEvent ==
  /\ enablePanicStop(watchdog, {"error"})
  /\ UNCHANGED << clockIdx, now, schedule, refreshInFlight, settings,
                  pendingSpeech, async, firedBefore, budget, call, ret, channels, broadcasts, ensure, failed,
                  error, outstanding >>

(***************************************************************************)
(* A new incarnation of the main window at instant j: every useState and   *)
(* useRef initialiser runs again, pending timers and suspended operations  *)
(* of the old page are gone, the mount effects run.  The time the app was  *)
(* closed is the gap to the next Tick.  keepOverlay: a reload (the overlay *)
(* webview survives); otherwise the app was closed, which destroys the     *)
(* overlay window.                                                         *)
(***************************************************************************)
Boot(j, store0, keepOverlay) ==
  LET st == store0.settings
      panic == isPanicStopEnabled(store0)
      loaded == loadFired(RawFired(store0.fired, store0.firedOld))
      crash == EntriesThrows(loaded)
      map == pruneFired(ObjectEntries(loaded), Instants[j])
  IN /\ clockIdx' = j
     /\ now' = Instants[j]
     /\ schedule' = None
     /\ refreshInFlight' = ~crash
     /\ outstanding' = IF crash THEN 0 ELSE 1
     /\ settings' = st
     /\ firedRef' = map
     /\ store' = IF crash THEN [store0 EXCEPT !.panic = TRUE]
                 ELSE [store0 EXCEPT !.fired = saveFired(map)]
     /\ panicStopEnabled' = (panic \/ crash)
     /\ watchdog' = [StartWatchdog(Instants[j]) EXCEPT !.timer = ~crash]
     /\ pendingSpeech' = 0
     /\ async' = VisibilityOps(st, panic)
     /\ overlay' = IF ~keepOverlay THEN NoOverlay
                   ELSE IF VisibilityHides(st, panic)
                        THEN [Broadcast(broadcasts, overlay, st)
                                EXCEPT !.visible = FALSE]
                        ELSE Broadcast(broadcasts, overlay, st)
     /\ fired' = {}
     /\ cues' = {}
     /\ trace' = << >>
     /\ fx' = (IF VisibilityHides(st, panic) THEN {"hide"} ELSE {})
                \cup (IF keepOverlay THEN BroadcastFx(broadcasts, overlay) ELSE {})
     /\ firedBefore' = DOMAIN fireCount
     /\ failed' = crash
     /\ error' = None
     /\ autoRefreshTimer' = IF ~crash /\ ~panic
                            THEN scheduleNextAutoRefresh(NoTimer)
                            ELSE NoTimer
     /\ broadcasts' = Enqueue([broadcasts EXCEPT !.queue = << >>], st)
     /\ ensure' = NoEnsure
     /\ UNCHANGED << fireCount, call, ret, channels >>

Restart(keepOverlay) ==
  /\ UserEvent
  /\ Boot(clockIdx, store, keepOverlay)

\* disablePanicStop, called by the Reset button, which then reloads
disablePanicStop(store0) == [store0 EXCEPT !.panic = FALSE]

ResetPanic ==
  /\ ~failed
  /\ panicStopEnabled
  /\ UserEvent
  /\ Boot(clockIdx, disablePanicStop(store), TRUE)

(***************************************************************************)
(* A speech timer (beepMs + 500 ms after a fire) expires: speak().         *)
(***************************************************************************)
\* speak(): nothing without window.speechSynthesis
speak == IF ~channels.speech THEN {} ELSE {"speak"}

SpeechTimer ==
  /\ pendingSpeech > 0
  /\ pendingSpeech' = pendingSpeech - 1
  /\ fx' = speak
  /\ fired' = {}
  /\ cues' = {}
  /\ trace' = << >>
  /\ UNCHANGED << clockIdx, now, schedule, refreshInFlight, settings, firedRef,
                  panicStopEnabled, store, watchdog, async, overlay, fireCount,
                  firedBefore, budget, call, ret, channels, broadcasts, ensure, failed, error, outstanding,
                  autoRefreshTimer >>

(***************************************************************************)
(* The overlay window (lib/overlay_window) and the operations on it.       *)
(***************************************************************************)
\* ensureOverlayWindow: the window exists afterwards, created hidden; a
\* failed creation is logged and leaves no window
ensureOverlayWindow(ov) ==
  IF ov.exists THEN ov
  ELSE IF channels.overlay = "unreachable" THEN ov
  ELSE [NoOverlay EXCEPT !.exists = TRUE]

\* setOverlayWindowVisible: show or hide the window if there is one
setOverlayWindowVisible(ov, visible) ==
  IF ~ov.exists THEN ov ELSE [ov EXCEPT !.visible = visible]

\* an operation resumes after its await or its timer; the result is the
\* overlay window, the effect, and what is left of the operation.
\* toast: showOverlayToast; vis: the visibility effect; front:
\* bringOverlayToFront, whose setOverlayWindowInteractive(true) calls
\* ensureOverlayWindow if it finds no window and shows the window, and
\* whose timer makes the window click-through again after 15 s; reset:
\* resetOverlayWindowBounds, which destroys the window, ensures and shows it
Resume(o, ov) ==
  CASE o.kind = "toast" /\ o.pc = "ensure" ->
         [ov |-> ensureOverlayWindow(ov), fx |-> {},
          rest |-> {[o EXCEPT !.pc = IF o.mode = "toast" THEN "show" ELSE "emit"]}]
    [] o.kind = "toast" /\ o.pc = "show" ->
         [ov |-> setOverlayWindowVisible(ov, TRUE), fx |-> {"show"},
          rest |-> {[o EXCEPT !.pc = "emit"]}]
    [] o.kind = "toast" /\ o.pc = "emit" ->
         [ov |-> ov,
          fx |-> IF channels.overlay = "ok" THEN {"toast"} ELSE {},
          rest |-> IF channels.overlay = "rejects" THEN {}
                   ELSE IF o.mode = "toast" THEN {[o EXCEPT !.pc = "hide"]}
                   ELSE {}]
    [] o.kind = "toast" /\ o.pc = "hide" ->
         [ov |-> setOverlayWindowVisible(ov, FALSE), fx |-> {"hide"}, rest |-> {}]
    [] o.kind = "vis" /\ o.pc = "ensure" ->
         [ov |-> ensureOverlayWindow(ov), fx |-> {},
          rest |-> {[o EXCEPT !.pc = "apply"]}]
    [] o.kind = "vis" /\ o.pc = "apply" ->
         [ov |-> setOverlayWindowVisible(ov, o.mode = "overview"),
          fx |-> IF o.mode = "overview" THEN {"show"} ELSE {"hide"},
          rest |-> {}]
    [] o.kind = "front" /\ o.pc = "show" ->
         [ov |-> setOverlayWindowVisible(ov, TRUE), fx |-> {"show"},
          rest |-> {[o EXCEPT !.pc = IF ov.exists THEN "timer" ELSE "ensure"]}]
    [] o.kind = "front" /\ o.pc = "ensure" ->
         [ov |-> ensureOverlayWindow(ov), fx |-> {},
          rest |-> {[o EXCEPT !.pc = "interactive"]}]
    [] o.kind = "front" /\ o.pc = "interactive" ->
         [ov |-> setOverlayWindowVisible(ov, TRUE), fx |-> {"show"},
          rest |-> {[o EXCEPT !.pc = "timer"]}]
    [] o.kind = "front" /\ o.pc = "timer" -> [ov |-> ov, fx |-> {}, rest |-> {}]
    [] o.kind = "reset" /\ o.pc = "destroy" ->
         [ov |-> NoOverlay, fx |-> {}, rest |-> {[o EXCEPT !.pc = "ensure"]}]
    [] o.kind = "reset" /\ o.pc = "ensure" ->
         [ov |-> ensureOverlayWindow(ov), fx |-> {},
          rest |-> {[o EXCEPT !.pc = "show"]}]
    [] o.kind = "reset" /\ o.pc = "show" ->
         [ov |-> setOverlayWindowVisible(ov, TRUE), fx |-> {"show"}, rest |-> {}]

AsyncStep(o) ==
  /\ o \in async
  /\ LET r == Resume(o, overlay)
     IN /\ overlay' = r.ov
        /\ fx' = r.fx
        /\ async' = (async \ {o}) \cup r.rest
  /\ fired' = {}
  /\ cues' = {}
  /\ trace' = << >>
  /\ UNCHANGED << clockIdx, now, schedule, refreshInFlight, settings, firedRef,
                  panicStopEnabled, store, watchdog, pendingSpeech, fireCount,
                  firedBefore, budget, call, ret, channels, broadcasts, ensure, failed, error, outstanding,
                  autoRefreshTimer >>

\* a click that starts overlay operations
Start(ops) ==
  /\ ~failed
  /\ ~panicStopEnabled
  /\ settings.overlayWindowEnabled
  /\ ~(ops \subseteq async)
  /\ Cardinality(async \cup ops) <= MaxAsync
  /\ async' = async \cup ops
  /\ Quiet
  /\ UNCHANGED << clockIdx, now, schedule, refreshInFlight, settings,
                  panicStopEnabled, store, watchdog, pendingSpeech, overlay,
                  firedBefore, budget, call, ret, channels, broadcasts, ensure, failed, error, outstanding,
                  autoRefreshTimer >>

\* the "Overlay Vorschau" button
previewOverlayToast == Start(showOverlayToast(settings, panicStopEnabled))

\* the Position button: setOverlayWindowVisible(true) after its first awaits,
\* then setOverlayWindowInteractive(true)
bringOverlayToFront ==
  Start({[kind |-> "front", pc |-> "show", mode |-> settings.overlayWindowMode]})

\* the Reset button of the overlay settings, disabled in panic-stop only
resetOverlayWindowBounds ==
  /\ ~failed
  /\ ~panicStopEnabled
  /\ LET ops == {[kind |-> "reset", pc |-> "destroy",
                  mode |-> settings.overlayWindowMode]}
     IN /\ ~(ops \subseteq async)
        /\ Cardinality(async \cup ops) <= MaxAsync
        /\ async' = async \cup ops
  /\ Quiet
  /\ UNCHANGED << clockIdx, now, schedule, refreshInFlight, settings,
                  panicStopEnabled, store, watchdog, pendingSpeech, overlay,
                  firedBefore, budget, call, ret, channels, broadcasts, ensure,
                  failed, error, outstanding, autoRefreshTimer >>

(***************************************************************************)
(* ensureOverlayWindow step by step: a call returns the promise the marker *)
(* holds, or starts a creation, which runs over its awaits and settles.    *)
(* In the steps above an operation at "ensure" resumes when the promise    *)
(* has settled; here the call, the awaits of the creation and the return   *)
(* to the caller are steps of their own.  The call is made in the turn of  *)
(* the handler that starts the operation; the model lets it come later as  *)
(* well.  The version key of the window is left out: the creation that     *)
(* made the window has written it.                                         *)
(***************************************************************************)
\* fault: the marker is never found set
getEnsureInFlightNever(en) == None

\* getEnsureInFlight()
getEnsureInFlight(en) == en.marker

\* the promises of the creations not settled and of the callers not resumed
Promises(en) ==
  {b.promise : b \in en.running} \cup {w.promise : w \in en.waiting}

\* a promise none of them holds
NewPromise(en) ==
  CHOOSE i \in 1..(Cardinality(Promises(en)) + 1) :
    /\ i \notin Promises(en)
    /\ \A j \in 1..(i - 1) : j \in Promises(en)

\* setEnsureInFlight
setEnsureInFlight(en, promise) == [en EXCEPT !.marker = promise]

\* ensureOverlayWindow() called by the operation o: the promise in flight
\* is returned, or the async body starts (it runs to its first await), the
\* marker is set to its promise and the promise is returned
CallEnsure(en, o) ==
  LET existingInFlight == getEnsureInFlight(en)
  IN IF existingInFlight # None
     THEN [en EXCEPT !.waiting = @ \cup {[op |-> o, promise |-> existingInFlight[1]]}]
     ELSE LET ensurePromise == NewPromise(en)
          IN [setEnsureInFlight(en, Some(ensurePromise)) EXCEPT
                !.running = @ \cup {[promise |-> ensurePromise, pc |-> "getByLabel"]},
                !.waiting = @ \cup {[op |-> o, promise |-> ensurePromise]}]

\* the body returns or throws: .catch logs, .finally clears the marker
Settle(en, b) == setEnsureInFlight([en EXCEPT !.running = @ \ {b}], None)

\* the creation b resumes after an await: the overlay window and the calls
\* afterwards.  getByLabel: the window exists (then setVisibleOnAllWorkspaces
\* is awaited) or new WebviewWindow is called; created: the answer to it,
\* tauri://error "already exists" if the label is taken, tauri://error on a
\* machine that cannot create the window, tauri://created otherwise; setup:
\* the awaits after tauri://created
ResumeCreation(en, b, ov) ==
  CASE b.pc = "getByLabel" ->
         [ov |-> ov,
          en |-> [en EXCEPT !.running = (@ \ {b}) \cup
                    {[b EXCEPT !.pc = IF ov.exists THEN "exists" ELSE "created"]}]]
    [] b.pc = "exists" -> [ov |-> ov, en |-> Settle(en, b)]
    [] b.pc = "created" ->
         IF ov.exists \/ channels.overlay = "unreachable"
         THEN [ov |-> ov, en |-> Settle(en, b)]
         ELSE [ov |-> [NoOverlay EXCEPT !.exists = TRUE],
               en |-> [en EXCEPT !.running = (@ \ {b}) \cup
                         {[b EXCEPT !.pc = "setup"]}]]
    [] b.pc = "setup" -> [ov |-> ov, en |-> Settle(en, b)]

\* a step of the calls that no handler of App sees
EnsureStep ==
  /\ fired' = {}
  /\ cues' = {}
  /\ trace' = << >>
  /\ fx' = {}
  /\ UNCHANGED << clockIdx, now, schedule, refreshInFlight, settings, firedRef,
                  panicStopEnabled, store, watchdog, pendingSpeech, fireCount,
                  firedBefore, budget, call, ret, channels, broadcasts, failed,
                  error, outstanding, autoRefreshTimer >>

\* the operation o calls ensureOverlayWindow and awaits the promise
EnsureCall(o) ==
  /\ o \in async
  /\ o.pc = "ensure"
  /\ Cardinality(ensure.waiting) < MaxCalls
  /\ ensure' = CallEnsure(ensure, o)
  /\ async' = async \ {o}
  /\ overlay' = overlay
  /\ EnsureStep

\* the creation b resumes
EnsureResume(b) ==
  /\ b \in ensure.running
  /\ LET r == ResumeCreation(ensure, b, overlay)
     IN /\ ensure' = r.en
        /\ overlay' = r.ov
  /\ async' = async
  /\ EnsureStep

\* the promise a caller awaits has settled: the caller goes on after its
\* await ensureOverlayWindow(), here once no more than MaxAsync operations
\* are suspended at their other awaits
EnsureReturn(w) ==
  /\ w \in ensure.waiting
  /\ w.promise \notin {b.promise : b \in ensure.running}
  /\ Cardinality(async \cup Resume(w.op, overlay).rest) <= MaxAsync
  /\ ensure' = [ensure EXCEPT !.waiting = @ \ {w}]
  /\ async' = async \cup Resume(w.op, overlay).rest
  /\ overlay' = overlay
  /\ EnsureStep

\* the operations that are at an await other than that of ensureOverlayWindow
Suspended == {o \in async : o.pc # "ensure"}

(***************************************************************************)
(* The page of the overlay window (OverlayWindow): it mounts with the      *)
(* settings it loads from localStorage, later its listener for             *)
(* helltime:overlay-settings is registered.                                *)
(***************************************************************************)
OverlayStep ==
  /\ Quiet
  /\ UNCHANGED << clockIdx, now, schedule, refreshInFlight, settings,
                  panicStopEnabled, store, watchdog, pendingSpeech, async,
                  firedBefore, budget, call, ret, channels, broadcasts, ensure, failed, error, outstanding,
                  autoRefreshTimer >>

\* useState(() => loadSettings())
OverlayMount ==
  /\ overlay.exists
  /\ overlay.held = None
  /\ overlay' = [overlay EXCEPT !.held = Some(toOverlayWindowSettings(store.settings))]
  /\ OverlayStep

\* await listen("helltime:overlay-settings", ...) has returned
OverlayListen ==
  /\ overlay.held # None
  /\ ~overlay.listening
  /\ overlay' = [overlay EXCEPT !.listening = TRUE]
  /\ OverlayStep

\* a started broadcast has passed its awaits: toOverlayWindowSettings of the
\* settings it captured, emitTo the overlay window
BroadcastEmit ==
  /\ broadcasts.queue # << >>
  /\ broadcasts' = [broadcasts EXCEPT !.queue = Tail(@)]
  /\ overlay' = Deliver(overlay,
                  toOverlayWindowSettings(Captured(Head(broadcasts.queue), settings)))
  /\ fx' = Delivered(overlay)
  /\ fired' = {}
  /\ cues' = {}
  /\ trace' = << >>
  /\ UNCHANGED << clockIdx, now, schedule, refreshInFlight, settings, firedRef,
                  panicStopEnabled, store, watchdog, pendingSpeech, async,
                  fireCount, firedBefore, budget, call, ret, channels, ensure, failed,
                  error, outstanding, autoRefreshTimer >>

(***************************************************************************)
(* The specification.                                                      *)
(***************************************************************************)
Next ==
  \/ \E j \in 1..MaxInstant : Tick(j)
  \/ \E t \in UserTypes, skew \in NowSkews : SetCategoryEnabled(t, skew)
  \/ \E t \in UserTypes, n \in 1..3 : SetTimerCount(t, n)
  \/ \E t \in UserTypes, i \in Slots, m \in LeadChoices : UpdateTimerMinutes(t, i, m)
  \/ RefreshStart
  \/ \E data \in Schedules : FetchOk(data)
  \/ FetchFail
  \/ Restart(FALSE)

\* the reminder engine with the overlay window switched off
Spec == Init /\ [][Next]_vars

(***************************************************************************)
(* Panic-stop: the watchdog, the error listeners, the Reset button and the *)
(* delayed speech timers, next to the ticks and the category checkbox.     *)
(***************************************************************************)
NextPanic ==
  \/ \E j \in 1..MaxInstant : Tick(j)
  \/ \E t \in UserTypes, skew \in NowSkews : SetCategoryEnabled(t, skew)
  \/ SetSoundEnabled
  \/ \E data \in Schedules : FetchOk(data)
  \/ \E ok \in BOOLEAN : WatchdogTick(ok)
  \/ ErrorEvent
  \/ Restart(FALSE)
  \/ ResetPanic
  \/ SpeechTimer

PanicSpec == InitLate /\ [][NextPanic]_vars

(***************************************************************************)
(* The overlay window switched on: the operations on it are suspended at   *)
(* their awaits and resume in any order, also after panic-stop.            *)
(***************************************************************************)
NextOverlay ==
  \/ \E j \in 1..MaxInstant : Tick(j)
  \/ \E data \in Schedules : FetchOk(data)
  \/ ErrorEvent
  \/ ResetPanic
  \/ \E o \in async : AsyncStep(o)
  \/ SetOverlayWindowEnabled
  \/ \E mode \in {"overview", "toast"} : SetOverlayWindowMode(mode)
  \/ previewOverlayToast
  \/ bringOverlayToFront

OverlaySpec == InitOverlay /\ [][NextOverlay]_vars

(***************************************************************************)
(* The callers of ensureOverlayWindow in one session of the page: the      *)
(* visibility effect at the mount, showOverlayToast, bringOverlayToFront   *)
(* and resetOverlayWindowBounds, on a machine that can create the overlay  *)
(* window and on one that cannot.                                          *)
(***************************************************************************)
InitEnsure ==
  /\ \E st \in {x \in StoredSettings(TRUE) : x.categories["helltide"].enabled} :
       Mounted0(st, LateStart, None, None)
  /\ call = None
  /\ ret = None
  /\ channels \in {Working, [Working EXCEPT !.overlay = "unreachable"]}
  /\ broadcasts = Emitted
  /\ ensure = NoEnsure

NextEnsure ==
  \/ previewOverlayToast
  \/ bringOverlayToFront
  \/ resetOverlayWindowBounds
  \/ \E o \in async : EnsureCall(o)
  \/ \E b \in ensure.running : EnsureResume(b)
  \/ \E w \in ensure.waiting : EnsureReturn(w)
  \/ \E o \in Suspended : AsyncStep(o)

EnsureSpec == InitEnsure /\ [][NextEnsure]_vars

(***************************************************************************)
(* The overlay settings channel: settings changes of the main window with  *)
(* the overlay window absent, mounting, or listening.                      *)
(***************************************************************************)
NextBroadcast ==
  \/ \E j \in 1..MaxInstant : Tick(j)
  \/ \E o \in async : AsyncStep(o)
  \/ OverlayMount
  \/ OverlayListen
  \/ SetOverlayWindowEnabled
  \/ \E mode \in {"overview", "toast"} : SetOverlayWindowMode(mode)
  \/ SetSoundEnabled

BroadcastSpec == InitOverlay /\ [][NextBroadcast]_vars

(***************************************************************************)
(* The dispatch of fire events under every combination of the sound and    *)
(* the overlay setting.                                                    *)
(***************************************************************************)
InitDispatch ==
  \E enabled \in BOOLEAN : \E st \in StoredSettings(enabled) : Boot0(st, LateStart)

NextDispatch ==
  \/ \E j \in 1..MaxInstant : Tick(j)
  \/ \E data \in Schedules : FetchOk(data)
  \/ \E t \in UserTypes, skew \in NowSkews : SetCategoryEnabled(t, skew)
  \/ SetSoundEnabled
  \/ SetOverlayWindowEnabled
  \/ \E o \in async : AsyncStep(o)
  \/ SpeechTimer

DispatchSpec == InitDispatch /\ [][NextDispatch]_vars

(***************************************************************************)
(* The dispatch on a machine where one of the presentation channels is     *)
(* down: no AudioContext, no speechSynthesis, or an overlay window that    *)
(* cannot be created or rejects events.                                    *)
(***************************************************************************)
InitChannels ==
  /\ \E st \in StoredSettings(TRUE) : Mounted0(st, 1, None, None)
  /\ call = None
  /\ ret = None
  /\ channels \in OneChannelDown
  /\ broadcasts = Emitted
  /\ ensure = NoEnsure

NextChannels ==
  \/ \E j \in 1..MaxInstant : Tick(j)
  \/ \E data \in Schedules : FetchOk(data)
  \/ \E o \in async : AsyncStep(o)
  \/ SpeechTimer

ChannelSpec == InitChannels /\ [][NextChannels]_vars

(***************************************************************************)
(* Fires by tick and by catch-up late before the first occurrence, with    *)
(* one channel down and restarts in between.                               *)
(***************************************************************************)
InitRecord ==
  /\ \E st \in StoredSettings(TRUE) : Mounted0(st, LateStart, None, None)
  /\ call = None
  /\ ret = None
  /\ channels \in OneChannelDown
  /\ broadcasts = Emitted
  /\ ensure = NoEnsure

NextRecord ==
  \/ \E j \in 1..MaxInstant : Tick(j)
  \/ \E data \in Schedules : FetchOk(data)
  \/ \E t \in UserTypes, skew \in NowSkews : SetCategoryEnabled(t, skew)
  \/ \E o \in async : AsyncStep(o)
  \/ SpeechTimer
  \/ Restart(FALSE)

RecordSpec == InitRecord /\ [][NextRecord]_vars

(***************************************************************************)
(* The pure functions findNext and pruneFired applied to arguments of      *)
(* their own: call holds the function and the arguments, ret the result.   *)
(***************************************************************************)
\* the occurrences the lists are made of: two with the same startTime, one
\* with an unparseable startTime
BenchOccs ==
  {Occ(1, Iso(S1)), Occ(2, Iso(S2)), Occ(3, Garbage), Occ(4, Iso(S2))}

OccLists == UNION {[1..n -> BenchOccs] : n \in 0..MaxLen}

\* before the first start, at it, and at the last
BenchNows == {S1 - 1, S1, S2}

\* the instant an entry was recorded, and one a minute later
T0 == S1 - 30 * MinuteMs

BenchKeys ==
  << FiredKey("helltide", 1, 0), FiredKey("helltide", 1, 1),
     FiredKey("legion", 1, 0), FiredKey("helltide", 2, 0) >>

BenchStamps == {T0, T0 + MinuteMs}

BenchMaps ==
  UNION {[D -> BenchStamps] : D \in SUBSET {BenchKeys[n] : n \in 1..MaxLen}}

\* 11h59m, 12h and 12h01m after T0
PruneNows ==
  {T0 + RetentionMs - MinuteMs, T0 + RetentionMs, T0 + RetentionMs + MinuteMs}

Call(fn, items, map, now_) ==
  [fn |-> fn, items |-> items, map |-> map, now |-> now_]

Calls ==
  {Call("findNext", items, << >>, t) : items \in OccLists, t \in BenchNows}
    \cup {Call("pruneFired", << >>, map, t) : map \in BenchMaps, t \in PruneNows}

InitPure ==
  /\ \E st \in StoredSettings(FALSE) : Mounted0(st, 1, None, None)
  /\ call \in {Some(c) : c \in Calls}
  /\ ret = None
  /\ channels = Working
  /\ broadcasts = Emitted
  /\ ensure = NoEnsure

Apply(fn, result) ==
  /\ call # None
  /\ call[1].fn = fn
  /\ ret = None
  /\ ret' = Some(result)
  /\ UNCHANGED << clockIdx, now, schedule, refreshInFlight, settings, firedRef,
                  panicStopEnabled, store, watchdog, pendingSpeech, async,
                  overlay, fired, fx, fireCount, firedBefore, budget, failed,
                  error, outstanding, autoRefreshTimer, call, channels, broadcasts, ensure,
                  cues, trace >>

CallFindNext == Apply("findNext", findNext(call[1].items, call[1].now))

CallPruneFired == Apply("pruneFired", pruneFired(call[1].map, call[1].now))

NextPure == CallFindNext \/ CallPruneFired

PureSpec == InitPure /\ [][NextPure]_vars

(***************************************************************************)
(* Startup from what a previous session, or anything else writing to       *)
(* localStorage, has left under helltime:fired_v3.                         *)
(***************************************************************************)
StoredCopies ==
  { None,
    Some(Json("unparseable", << >>)),
    Some(Json("null", << >>)),
    Some(Json("number", << >>)),
    Some(Json("object", << >>)),
    Some(Json("object", FiredKey("helltide", 1, 0) :> Instants[2])) }

InitStartup ==
  /\ \E st \in StoredSettings(FALSE), stored \in StoredCopies :
        Mounted0(st, 1, stored, None)
  /\ call = None
  /\ ret = None
  /\ channels = Working
  /\ broadcasts = Emitted
  /\ ensure = NoEnsure

NextStartup ==
  \/ \E j \in 1..MaxInstant : Tick(j)
  \/ \E data \in Schedules : FetchOk(data)
  \/ FetchFail
  \/ Restart(FALSE)

StartupSpec == InitStartup /\ [][NextStartup]_vars

(***************************************************************************)
(* Startup of a version that writes helltime:fired_v3 over what earlier    *)
(* versions have left under helltime:fired_v2: call holds the two items as *)
(* they were before the page loaded, ret what loadFired made of them.      *)
(***************************************************************************)
\* a key as an earlier version wrote it, without the category
LegacyKey(id, i) == << id, i >>

\* an entry of the evening before, and one written at the first start time
StaleStamp == MinuteMs

RecentStamp == S1

CurrentCopies ==
  { None,
    Some(Json("unparseable", << >>)),
    Some(Json("object", << >>)),
    Some(Json("object", FiredKey("helltide", 1, 0) :> RecentStamp
                          @@ FiredKey("helltide", 1, 1) :> StaleStamp)) }

LegacyCopies ==
  { None,
    Some(Json("null", << >>)),
    Some(Json("object", LegacyKey(1, 0) :> RecentStamp
                          @@ LegacyKey(1, 1) :> StaleStamp)) }

LoadCall(current, legacy) ==
  [fn |-> "loadFired", current |-> current, legacy |-> legacy]

\* the page loads before the first occurrence or more than 12 hours later
InitMigration ==
  /\ \E st \in StoredSettings(FALSE), current \in CurrentCopies,
        legacy \in LegacyCopies, j \in {LateStart, MaxInstant} :
        /\ Mounted0(st, j, current, legacy)
        /\ call = Some(LoadCall(current, legacy))
  /\ ret = None
  /\ channels = Working
  /\ broadcasts = Emitted
  /\ ensure = NoEnsure

CallLoadFired ==
  Apply("loadFired", loadFired(RawFired(call[1].current, call[1].legacy)))

NextMigration ==
  \/ \E j \in 1..MaxInstant : Tick(j)
  \/ \E data \in Schedules : FetchOk(data)
  \/ Restart(FALSE)
  \/ CallLoadFired

MigrationSpec == InitMigration /\ [][NextMigration]_vars

(***************************************************************************)
(* The automatic refresh over an unbounded run: the pending timeout        *)
(* expires and the fetch in flight settles, each eventually.               *)
(***************************************************************************)
AutoRefreshTimeout == AutoRefresh(FALSE)

\* the fetch in flight settles
FetchSettles == (\E data \in Schedules : FetchOk(data)) \/ FetchFail

NextRefresh ==
  \/ \E j \in 1..MaxInstant : Tick(j)
  \/ AutoRefreshTimeout
  \/ \E data \in Schedules : FetchOk(data)
  \/ FetchFail
  \/ ErrorEvent

RefreshSpec ==
  /\ Init
  /\ [][NextRefresh]_vars
  /\ WF_vars(AutoRefreshTimeout)
  /\ WF_vars(FetchSettles)

(***************************************************************************)
(* The interval under jitter: around the trigger point of the 30-minute    *)
(* slots the callback runs late, but never more than 30 s after its        *)
(* previous run, and it keeps running; the schedule is refreshed in        *)
(* between.                                                                *)
(***************************************************************************)
\* the instants around T0 = S1 - 30 min at which the callback can run
BandInstants ==
  << T0 - 1000, T0 - 1, T0, T0 + 1000, T0 + 29000, T0 + 29999,
     T0 + fireWindowMs, T0 + fireWindowMs + 1, T0 + 59000, T0 + 60000 >>

\* the callback runs at most 30 s after its previous run
TimelyTick(j) ==
  /\ j \in (clockIdx + 1)..Len(BandInstants)
  /\ BandInstants[j] - now <= 30000
  /\ TickTo(j, BandInstants[j])

TimelyTicks == \E j \in 1..Len(BandInstants) : TimelyTick(j)

NextBand ==
  \/ TimelyTicks
  \/ AutoRefreshTimeout
  \/ \E data \in Schedules : FetchOk(data)
  \/ FetchFail

BandSpec == Init /\ [][NextBand]_vars /\ WF_vars(TimelyTicks)

(***************************************************************************)
(* Schedules whose occurrences follow each other within a lead time, up to *)
(* the time when no occurrence is left.                                    *)
(***************************************************************************)
NextClose ==
  \/ \E j \in 1..MaxInstant : Tick(j)
  \/ \E data \in Schedules \cup CloseSchedules : FetchOk(data)
  \/ \E t \in UserTypes, skew \in NowSkews : SetCategoryEnabled(t, skew)
  \/ RefreshStart

CloseSpec == Init /\ [][NextClose]_vars

(***************************************************************************)
(* The category checkbox clicked around the start of the first occurrence: *)
(* long before it, shortly before it, within the second after the last     *)
(* tick before it, and when no occurrence is left.                         *)
(***************************************************************************)
\* the instants at which the interval callback runs
EdgeInstants ==
  << S1 - 30 * MinuteMs - 1000,
     S1 - 3 * MinuteMs,
     S1 - 400,
     S1 - 200,
     S1,
     S2 - 200,
     S2 + 1000 >>

EdgeTick(j) ==
  /\ j \in (clockIdx + 1)..Len(EdgeInstants)
  /\ TickTo(j, EdgeInstants[j])

InitEdge ==
  \E enabled \in BOOLEAN : \E st \in StoredSettings(enabled) : Boot0(st, 1)

NextEdge ==
  \/ \E j \in 1..Len(EdgeInstants) : EdgeTick(j)
  \/ \E data \in Schedules : FetchOk(data)
  \/ \E t \in Types, skew \in NowSkews : SetCategoryEnabled(t, skew)
  \/ \E t \in UserTypes, n \in 1..3 : SetTimerCount(t, n)
  \/ \E o \in async : AsyncStep(o)

EdgeSpec == InitEdge /\ [][NextEdge]_vars

(***************************************************************************)
(* The auto-refresh timeouts across panic-stop, the Reset button and       *)
(* restarts, while fetches settle.                                         *)
(***************************************************************************)
NextTimer ==
  \/ \E j \in 1..MaxInstant : Tick(j)
  \/ AutoRefreshTimeout
  \/ \E data \in Schedules : FetchOk(data)
  \/ FetchFail
  \/ ErrorEvent
  \/ ResetPanic
  \/ Restart(FALSE)

TimerSpec == Init /\ [][NextTimer]_vars

(***************************************************************************)
(* The settings handlers of the main window (category, timer count, the    *)
(* TTS of a slot, sound, overlay) with the broadcasts they start still on  *)
(* their way while the next handler runs, and the overlay window listening *)
(* or not.                                                                 *)
(***************************************************************************)
InitSettings ==
  /\ \E st \in StoredSettings(TRUE) :
        /\ Mounted0(st, LateStart, None, None)
        /\ broadcasts = Queued(<< st >>)
        /\ ensure = NoEnsure
  /\ call = None
  /\ ret = None
  /\ channels = Working

NextSettings ==
  \/ \E data \in Schedules : FetchOk(data)
  \/ \E t \in UserTypes, skew \in NowSkews : SetCategoryEnabled(t, skew)
  \/ \E t \in UserTypes, n \in 1..3 : SetTimerCount(t, n)
  \/ \E t \in UserTypes : UpdateTimerTts(t, 0)
  \/ SetSoundEnabled
  \/ SetOverlayWindowEnabled
  \/ BroadcastEmit
  \/ \E o \in async : AsyncStep(o)
  \/ OverlayMount
  \/ OverlayListen

SettingsSpec == InitSettings /\ [][NextSettings]_vars

(***************************************************************************)
(* Properties of the Fired Registry and the two evaluators.                *)
(***************************************************************************)
KeysOf(events) == {e.key : e \in events}

TickEvent(key) == [key |-> key, by |-> "tick"]

CatchUpEvent(key) == [key |-> key, by |-> "catchup"]

Lead(st, t, i) == st.categories[t].timers[i + 1].minutesBefore

\* the step switches category t from disabled to enabled
EnableStep(t) ==
  ~settings.categories[t].enabled /\ settings'.categories[t].enabled

\* the keys whose window contains now, whatever the registry says
InWindowKeys ==
  IF panicStopEnabled THEN {}
  ELSE DueKeys(schedule, now, settings, FALSE, << >>)

\* C1: in every run of ticks, refreshes, settings changes and category
\* toggles, each FiredKey triggers the dispatcher at most once.
C1_AtMostOnce == \A k \in DOMAIN fireCount : fireCount[k] <= 1

\* a key that has fired is evaluated again inside its window and not fired
C1_Witness ==
  \E k \in InWindowKeys \cap DOMAIN fireCount : k \notin KeysOf(fired)

\* C2: a key that fired before a restart is never fired by a tick or a
\* catch-up after the restart.
C2_NoDuplicateAfterRestart == \A e \in fired : e.key \notin firedBefore

\* after a restart the trigger effect runs inside the window of a key that
\* fired before the restart
C2_Witness == \E k \in InWindowKeys : k \in firedBefore

\* C3: on a tick with a loaded schedule and panic-stop inactive, slot i of
\* category t fires for the selected next occurrence if and only if t is
\* enabled, i < timerCount, the key is not in the registry and
\* triggerAt <= now <= triggerAt + 30 s.
C3_TickFiresIffDue ==
  [][(clockIdx' # clockIdx /\ schedule # None /\ ~panicStopEnabled) =>
       \A t \in Types, i \in Slots :
         LET next == findNext(schedule[1][t], now')
             triggerAt == DateGetTime(next[1].startTime)
                            - Lead(settings, t, i) * MinuteMs
         IN next # None =>
              (FiredKey(t, next[1].id, i) \in KeysOf(fired')
                 <=> /\ settings.categories[t].enabled
                     /\ i < settings.categories[t].timerCount
                     /\ FiredKey(t, next[1].id, i) \notin DOMAIN firedRef
                     /\ triggerAt <= now'
                     /\ now' <= triggerAt + 30000)]_vars

\* the tick at T - 10m + 5s fires the 10-minute slot (the schedule was
\* loaded before: the 30-minute slot has fired, nothing else has happened)
C3_Witness ==
  /\ now = S1 - 10 * MinuteMs + 5000
  /\ TickEvent(FiredKey("helltide", 1, 1)) \in fired
  /\ FiredKey("helltide", 1, 0) \in DOMAIN fireCount
  /\ budget = 0

\* slot i of category t has missed its window for the selected occurrence
Missed(t, i) ==
  /\ schedule # None
  /\ LET next == findNext(schedule[1][t], now)
     IN /\ next # None
        /\ now > DateGetTime(next[1].startTime) - Lead(settings, t, i) * MinuteMs
                   + fireWindowMs
        /\ FiredKey(t, next[1].id, i) \notin DOMAIN firedRef

MissedKey(t, i) == FiredKey(t, findNext(schedule[1][t], now)[1].id, i)

SameLead(t, i) == Lead(settings', t, i) = Lead(settings, t, i)

\* C4 as claimed: a slot that has missed its window is not fired afterwards
\* by any operation (the slot's lead time staying as it is).
C4_NeverFiredAfterMiss ==
  [][\A t \in Types, i \in Slots :
       (Missed(t, i) /\ SameLead(t, i)) =>
          MissedKey(t, i) \notin KeysOf(fired')]_vars

\* C4, amended: a slot that has missed its window is not fired afterwards by
\* the trigger evaluator (the slot's lead time staying as it is); it fires
\* only in a step that switches its category from disabled to enabled, by
\* the catch-up evaluator.
C4_MissedFiresOnlyByCatchUp ==
  [][\A t \in Types, i \in Slots :
       (Missed(t, i) /\ SameLead(t, i)) =>
          /\ TickEvent(MissedKey(t, i)) \notin fired'
          /\ MissedKey(t, i) \in KeysOf(fired') => EnableStep(t)]_vars

\* the trigger evaluator has just fired the 10-minute slot while the
\* 30-minute slot of the enabled category is missed
C4_Witness ==
  /\ Missed("helltide", 0)
  /\ settings.categories["helltide"].enabled
  /\ Lead(settings, "helltide", 0) = 30
  /\ TickEvent(FiredKey("helltide", 1, 1)) \in fired

\* the active slots of category t whose trigger point has passed when
\* remainingMs are left
Overdue(t, remainingMs) ==
  {i \in Slots : /\ i < settings.categories[t].timerCount
                 /\ Lead(settings, t, i) * MinuteMs >= remainingMs}

\* the slots of S with the smallest lead time
SmallestLead(t, S) ==
  {i \in S : \A h \in S : Lead(settings, t, i) <= Lead(settings, t, h)}

\* what is left until the next occurrence of t at a click skew ms after the
\* last tick
Remaining(t, skew) ==
  DateGetTime(findNext(schedule[1][t], now)[1].startTime)
    - (Instants[clockIdx] + skew)

\* the enable of category t finds a next occurrence with remaining > 0 and
\* an overdue active slot
CatchUpCase(t, skew) ==
  /\ EnableStep(t)
  /\ schedule # None
  /\ findNext(schedule[1][t], now) # None
  /\ Remaining(t, skew) > 0
  /\ Overdue(t, Remaining(t, skew)) # {}

C6_SmallestUnfiredChosen ==
  [][\A t \in Types, skew \in NowSkews :
       CatchUpCase(t, skew) =>
          LET unfired == {i \in Overdue(t, Remaining(t, skew)) :
                            MissedKey(t, i) \notin DOMAIN firedRef}
          IN unfired # {} =>
               \E i \in SmallestLead(t, unfired) :
                  CatchUpEvent(MissedKey(t, i)) \in fired']_vars

(***************************************************************************)
(* Properties of panic-stop.                                               *)
(***************************************************************************)
\* C7: while panic-stop is active a fire event, whether of a tick or of the
\* catch-up evaluator, starts no overlay toast, no audio cue and no speech.
C7_NoDispatchInPanic ==
  (panicStopEnabled /\ fired # {}) =>
     fx \cap {"toast", "show", "beep", "speak"} = {}

\* C8: while panic-stop is active no speech cue starts, also not from a
\* speech timer that was set before panic-stop was entered.
C8_NoSpeechInPanic == panicStopEnabled => "speak" \notin fx

\* C9: while panic-stop is active the overlay window is not visible.
C9_OverlayHiddenInPanic == panicStopEnabled => ~overlay.visible

\* C10: the stored panic flag is cleared only by the Reset button's
\* disablePanicStop, and whenever it is set (also after a restart) App is in
\* panic-stop.
C10_PanicSticky ==
  [][/\ (store.panic /\ ~store'.panic) => ResetPanic
     /\ store'.panic => panicStopEnabled']_vars

\* App has been restarted in panic-stop: the watchdog interval that
\* enablePanicStop had cleared is running again
C10_Witness == panicStopEnabled /\ store.panic /\ watchdog.timer

(***************************************************************************)
(* Properties of the UI watchdog and the error listeners.                  *)
(***************************************************************************)
\* the step is a run of the watchdog interval that measured the container
Observed == fx' \cap {"observe_ok", "observe_bad"} # {}

\* C11: the watchdog measures the container only while its interval runs,
\* panic-stop is not stored and the grace period has elapsed; a good
\* observation sets the bad count to 0, a bad one adds 1, nothing else but a
\* new page load changes the count; an observation enters panic-stop exactly
\* when it is the third consecutive bad one, and the interval is cleared
\* with it.
C11_WatchdogTripsOnThirdBad ==
  [][/\ Observed =>
          /\ watchdog.timer
          /\ ~store.panic
          /\ ~panicStopEnabled
          /\ ~(Instants[clockIdx] < watchdog.armedAt)
          /\ (panicStopEnabled' <=> ("observe_bad" \in fx' /\ watchdog.badCount = 2))
          /\ (panicStopEnabled' <=> store'.panic)
          /\ (panicStopEnabled' <=> ~watchdog'.timer)
     /\ "observe_ok" \in fx' => watchdog'.badCount = 0
     /\ "observe_bad" \in fx' => watchdog'.badCount = watchdog.badCount + 1
     /\ (~Observed /\ watchdog'.badCount # watchdog.badCount) =>
          /\ watchdog'.badCount = 0
          /\ watchdog' = StartWatchdog(Instants[clockIdx'])
     /\ watchdog'.badCount <= 3]_vars

\* the watchdog has just entered panic-stop with its third bad observation
C11_Witness ==
  /\ panicStopEnabled
  /\ "observe_bad" \in fx
  /\ watchdog.badCount = 3
  /\ ~watchdog.timer

\* C12: every step of an error listener or of the error boundary ends in
\* panic-stop, with the flag stored and the watchdog interval cleared,
\* whatever the watchdog's bad count is and without changing it.
C12_ErrorEntersPanic ==
  [][("error" \in fx') =>
        /\ panicStopEnabled'
        /\ store'.panic
        /\ ~watchdog'.timer
        /\ watchdog'.badCount = watchdog.badCount]_vars

\* an error has entered panic-stop after one bad observation of the watchdog
C12_Witness ==
  /\ "error" \in fx
  /\ panicStopEnabled
  /\ watchdog.badCount = 1

(***************************************************************************)
(* Properties of findNext and pruneFired.                                  *)
(***************************************************************************)
\* the positions of items with a parseable startTime after now_
Future(items, now_) ==
  {n \in 1..Len(items) : items[n].startTime.valid /\ items[n].startTime.ms > now_}

\* the lists that hold the items of items in another order
Reordered(items) ==
  {[n \in 1..Len(items) |-> items[p[n]]] :
     p \in {q \in [1..Len(items) -> 1..Len(items)] :
              \A m, n \in 1..Len(items) : q[m] = q[n] => m = n}}

\* no two future items of the list start at the same time
UniqueInTime(items, now_) ==
  \A m, n \in Future(items, now_) :
     items[m].startTime.ms = items[n].startTime.ms => items[m] = items[n]

\* C13: findNext(items, now) returns none exactly when no item has a
\* parseable startTime after now; otherwise it returns an item of the list
\* whose startTime is after now and minimal among those; items with an
\* unparseable startTime are skipped; in every other order of the list the
\* result has the same startTime, and it is the same occurrence when the
\* future items are unique in time.
C13_FindNextEarliestFuture ==
  (call # None /\ ret # None /\ call[1].fn = "findNext") =>
     LET items == call[1].items
         now_ == call[1].now
         r == ret[1]
     IN /\ (r = None <=> Future(items, now_) = {})
        /\ r # None =>
             /\ \E n \in Future(items, now_) : items[n] = r[1]
             /\ r[1].startTime.ms > now_
             /\ \A n \in Future(items, now_) :
                   r[1].startTime.ms <= items[n].startTime.ms
        /\ \A other \in Reordered(items) :
             LET o == findNext(other, now_)
             IN /\ (o = None <=> r = None)
                /\ o # None => o[1].startTime.ms = r[1].startTime.ms
                /\ UniqueInTime(items, now_) => o = r

\* the earliest future occurrence stands last, behind a later one and one
\* with an unparseable startTime
C13_Witness ==
  /\ call # None
  /\ call[1].fn = "findNext"
  /\ call[1].items = << Occ(3, Garbage), Occ(2, Iso(S2)), Occ(1, Iso(S1)) >>
  /\ call[1].now = S1 - 1
  /\ ret = Some(Some(Occ(1, Iso(S1))))

\* C14: pruneFired(map, now) keeps exactly the entries whose timestamp is
\* not older than now - 12 h, with their timestamps; an entry recorded at
\* t0 is kept at t0 + 11h59m and dropped at t0 + 12h01m.
C14_PruneKeepsRecent ==
  (call # None /\ ret # None /\ call[1].fn = "pruneFired") =>
     LET map == call[1].map
         now_ == call[1].now
         r == ret[1]
     IN /\ DOMAIN r = {k \in DOMAIN map : map[k] >= now_ - 43200000}
        /\ \A k \in DOMAIN r : r[k] = map[k]
        /\ \A k \in DOMAIN map :
             /\ now_ = map[k] + 43200000 - 60000 => k \in DOMAIN r
             /\ now_ = map[k] + 43200000 + 60000 => k \notin DOMAIN r

\* pruned 12 hours after T0: the entry of T0 is dropped, the entry
\* recorded a minute later is kept
C14_Witness ==
  /\ call # None
  /\ call[1].fn = "pruneFired"
  /\ call[1].now = T0 + RetentionMs + MinuteMs
  /\ call[1].map = (BenchKeys[1] :> T0) @@ (BenchKeys[2] :> T0 + MinuteMs)
  /\ ret = Some(BenchKeys[2] :> T0 + MinuteMs)

(***************************************************************************)
(* Properties of the startup.                                              *)
(***************************************************************************)
\* C15: whatever is stored as the registry copy (nothing, an unparseable
\* text, a JSON value that is no map), App mounts and ticks with a registry:
\* no error is raised, the error boundary has not failed, and panic-stop is
\* neither active nor stored.
C15_LoadNeverFatal == ~failed /\ ~panicStopEnabled /\ ~store.panic

(***************************************************************************)
(* Properties of refresh().                                                *)
(***************************************************************************)
\* the step is the failure of the fetch in flight: refresh() has set the
\* error to null, only the catch branch sets a message
FetchFailed == error = None /\ error' # None

\* C16: the step in which a fetch fails sets the error and leaves the
\* schedule, the registry, the settings and the clock as they are and fires
\* nothing; while the error is shown, a tick evaluates the schedule of the
\* last successful fetch and fires exactly the slots due in it.
C16_FailedFetchKeepsSchedule ==
  [][/\ FetchFailed =>
          /\ schedule' = schedule
          /\ firedRef' = firedRef
          /\ settings' = settings
          /\ now' = now
          /\ panicStopEnabled' = panicStopEnabled
          /\ fired' = {}
     /\ (error # None /\ clockIdx' # clockIdx /\ ~failed') =>
          /\ schedule' = schedule
          /\ error' = error
          /\ fired' = Events(DueKeys(schedule, now', settings, panicStopEnabled,
                                     pruneFired(firedRef, now')), "tick")]_vars

\* a refresh has failed after a successful one, and the tick at the start
\* of the 10-minute window has fired the slot from the schedule kept
C16_Witness ==
  /\ error # None
  /\ schedule # None
  /\ TickEvent(FiredKey("helltide", 1, 1)) \in fired

\* C17: never more than one fetch is outstanding, and refreshInFlightRef is
\* set exactly while one is; a refresh requested while a fetch is
\* outstanding starts no fetch, and none starts for it later: the step that
\* settles the fetch, with a schedule or with an error, leaves no fetch
\* outstanding and the guard released.
C17_OneFetchInFlight ==
  [][/\ outstanding' <= 1
     /\ (refreshInFlight' <=> outstanding' = 1)
     /\ (refreshInFlight /\ autoRefreshTimer.held /\ ~autoRefreshTimer'.held
           /\ ~panicStopEnabled') =>
          /\ outstanding' = outstanding
          /\ refreshInFlight'
          /\ schedule' = schedule
          /\ error' = error
     /\ (outstanding' < outstanding) =>
          /\ outstanding' = 0
          /\ ~refreshInFlight']_vars

\* the auto-refresh timeout has expired while the fetch of the mount effect
\* was outstanding: the request was dropped, the fetch is still the only one
C17_Witness ==
  /\ refreshInFlight
  /\ outstanding = 1
  /\ ~autoRefreshTimer.held
  /\ ~panicStopEnabled
  /\ ~failed

\* C18: whenever no fetch is in flight and panic-stop is inactive (the last
\* refresh attempt has completed, with a schedule or with an error), another
\* fetch is eventually started, unless panic-stop is entered first.
C18_RefreshRecurs ==
  (~refreshInFlight /\ ~panicStopEnabled) ~> (refreshInFlight \/ panicStopEnabled)

(***************************************************************************)
(* Properties of the overlay settings channel.                             *)
(***************************************************************************)
\* C19: a settings change of the main window broadcasts the new snapshot.
\* With no listener registered the broadcast changes nothing of the
\* overlay window, and registering the listener later delivers nothing;
\* with the listener registered, the copy the overlay window holds after
\* the step is the snapshot of the new settings.
C19_BroadcastReachesListener ==
  [][/\ (settings' # settings /\ ~overlay.listening) =>
          /\ overlay'.held = overlay.held
          /\ "overlay-settings" \notin fx'
     /\ (settings' # settings /\ overlay.listening) =>
          /\ overlay'.held =
               Some([enabled |-> settings'.overlayWindowEnabled,
                     mode |-> settings'.overlayWindowMode])
          /\ "overlay-settings" \in fx'
     /\ (~overlay.listening /\ overlay'.listening) =>
          overlay'.held = overlay.held]_vars

\* the listening overlay window has just received the second broadcast of
\* the run: the overlay switched to overview and then switched off
C19_Witness ==
  /\ "overlay-settings" \in fx
  /\ overlay.listening
  /\ budget = 2
  /\ overlay.held = Some([enabled |-> FALSE, mode |-> "overview"])
  /\ ~settings.overlayWindowEnabled

(***************************************************************************)
(* Properties of the dispatch.                                             *)
(***************************************************************************)
\* the timer of the fire event e has TTS switched on
Spoken(e) == settings'.categories[e.key[1]].timers[e.key[3] + 1].ttsEnabled

\* C20: in every step that fires outside panic-stop, the overlay toast is
\* dispatched if and only if the overlay is enabled, the audio cue is
\* played if and only if the sound is enabled, each whatever the other
\* setting is, and a speech timer is started only if a fired slot has TTS
\* (and the sound is enabled); with the sound enabled a fired slot with TTS
\* leaves a speech timer pending.
C20_DispatchGating ==
  [][(fired' # {} /\ ~panicStopEnabled') =>
        /\ ("toast-dispatch" \in fx' <=> settings'.overlayWindowEnabled)
        /\ settings'.overlayWindowEnabled =>
              \E o \in async' : o.kind = "toast" /\ o.pc = "ensure"
        /\ ("beep" \in fx' <=> settings'.soundEnabled)
        /\ pendingSpeech' > pendingSpeech =>
              /\ settings'.soundEnabled
              /\ \E e \in fired' : Spoken(e)
        /\ (settings'.soundEnabled /\ \E e \in fired' : Spoken(e)) =>
              pendingSpeech' > 0]_vars

\* a slot without TTS has fired with the overlay enabled and the sound
\* switched off: a toast, no audio cue, no speech timer
C20_Witness ==
  /\ fired # {}
  /\ ~panicStopEnabled
  /\ settings.overlayWindowEnabled
  /\ ~settings.soundEnabled
  /\ "toast-dispatch" \in fx
  /\ "beep" \notin fx
  /\ pendingSpeech = 0

\* C21: a channel that is down stops no other channel and no evaluation.
\* In every step that fires outside panic-stop, whatever channel is down:
\* the overlay toast is dispatched if the overlay is enabled; with the
\* sound enabled every fire event gets its audio cue (tones if there is an
\* AudioContext) and, if its slot has TTS, its speech timer; a tick fires
\* every due slot of every category; and a speech timer that expires
\* without speechSynthesis changes nothing else.
C21_ChannelIsolation ==
  [][/\ (fired' # {} /\ ~panicStopEnabled') =>
          /\ settings'.overlayWindowEnabled =>
                /\ "toast-dispatch" \in fx'
                /\ \E o \in async' : o.kind = "toast" /\ o.pc = "ensure"
          /\ settings'.soundEnabled =>
                /\ \A e \in fired' :
                      \E c \in cues' :
                         /\ c.key = e.key
                         /\ channels.audio => c.tones # {}
                         /\ Spoken(e) => c.speakAfter # None
                /\ (\E e \in fired' : Spoken(e)) => pendingSpeech' > 0
                /\ channels.audio => "beep" \in fx'
          /\ clockIdx' # clockIdx =>
                fired' = Events(DueKeys(schedule, now', settings, FALSE,
                                        pruneFired(firedRef, now')), "tick")
     /\ pendingSpeech' < pendingSpeech =>
          /\ ("speak" \in fx' <=> channels.speech)
          /\ ~failed'
          /\ panicStopEnabled' = panicStopEnabled
          /\ firedRef' = firedRef
          /\ async' = async]_vars

\* without an AudioContext one tick has fired slots of two categories: the
\* toast is dispatched and the speech timer is started, no tone sounds
C21_Witness ==
  /\ ~channels.audio
  /\ \E e, f \in fired : e.key[1] # f.key[1]
  /\ "toast-dispatch" \in fx
  /\ "beep" \notin fx
  /\ pendingSpeech > 0

\* the speech cue of every fire event of the last handler is timed by the
\* audio cue of the same fire event: it starts beepMs + 500 ms after the
\* dispatch, beepMs being what playBeep returned for the slot's pattern,
\* and then no tone of that audio cue sounds
SequencedPerFire ==
  \A c \in cues :
     LET timer == settings.categories[c.key[1]].timers[c.key[3] + 1]
     IN /\ c.beepMs = (IF c.tones = {} THEN 0
                       ELSE IF timer.beepPattern = "triple" THEN 840
                       ELSE IF timer.beepPattern = "double" THEN 530
                       ELSE 220)
        /\ (c.speakAfter # None <=> timer.ttsEnabled)
        /\ c.speakAfter # None =>
             /\ c.speakAfter[1] = c.beepMs + 500
             /\ \A t \in c.tones : t.to <= c.speakAfter[1]

\* the speech cue of c starts while a tone of the audio cue of a sounds
SpeaksOver(c, a) ==
  /\ c.speakAfter # None
  /\ \E t \in a.tones : t.from <= c.speakAfter[1] /\ c.speakAfter[1] < t.to

\* C22: every fire event with sound and slot speech enabled starts its
\* speech cue beepDuration + 500 ms after its beep, beepDuration being the
\* value returned for the slot's pattern, and no speech cue starts while an
\* audio cue is still playing.
C22_SpeechAfterBeep ==
  /\ SequencedPerFire
  /\ \A c, a \in cues : ~SpeaksOver(c, a)

(***************************************************************************)
(* Properties of the slot loop and of the registry.                        *)
(***************************************************************************)
\* slot key[3] is one of the first timerCount slots of its category
ActiveSlot(st, key) == key[3] < st.categories[key[1]].timerCount

\* C23: no step, of the tick evaluator or of the catch-up evaluator, fires
\* or records a key whose slot index is not below the timerCount of its
\* category as configured when it fires.
C23_OnlyActiveSlots ==
  [][/\ \A e \in fired' : ActiveSlot(settings', e.key)
     /\ \A k \in DOMAIN firedRef' \ DOMAIN firedRef :
           ActiveSlot(settings', k)]_vars

\* timerCount is 2 and a tick has run inside the window of the third slot
\* (5 minutes) with the schedule loaded: the slot has not fired
C23_Witness ==
  /\ settings.categories["helltide"].enabled
  /\ settings.categories["helltide"].timerCount = 2
  /\ Lead(settings, "helltide", 2) = 5
  /\ schedule # None
  /\ findNext(schedule[1]["helltide"], now) = Some(Occ(1, Iso(S1)))
  /\ now = S1 - 5 * MinuteMs
  /\ fired = {}
  /\ FiredKey("helltide", 1, 2) \notin DOMAIN firedRef

\* the start of the occurrence the key names, in the schedule sched
StartOf(sched, key) ==
  LET at == {n \in 1..Len(sched[key[1]]) : sched[key[1]][n].id = key[2]}
  IN DateGetTime(sched[key[1]][CHOOSE n \in at : TRUE].startTime)

\* at is inside the fire window of the slot of key as st configures it
InsideWindow(sched, st, key, at) ==
  LET triggerAt == StartOf(sched, key) - Lead(st, key[1], key[3]) * MinuteMs
  IN triggerAt <= at /\ at <= triggerAt + 30000

\* C24: every fire event is either one of the trigger evaluator with now
\* inside the fire window of its slot, or one of the catch-up evaluator in
\* a step that switches its category from disabled to enabled; no other
\* step (start, restart, fetch completion, change of timerCount or of a
\* lead time) fires a slot outside its window.
C24_CatchUpOnlyOnEnable ==
  [][\A e \in fired' :
       \/ /\ e.by = "tick"
          /\ schedule' # None
          /\ InsideWindow(schedule'[1], settings', e.key, now')
       \/ /\ e.by = "catchup"
          /\ EnableStep(e.key[1])]_vars

\* after a restart the schedule is loaded again while the window of the
\* 30-minute slot, which never fired, has closed: nothing fires
C24_Witness ==
  /\ firedBefore # {}
  /\ settings.categories["helltide"].enabled
  /\ Missed("helltide", 0)
  /\ Lead(settings, "helltide", 0) = 30
  /\ fired = {}

(***************************************************************************)
(* Properties of the schedule snapshot.                                    *)
(***************************************************************************)
\* C25: the schedule the evaluator sees changes only in the step in which
\* the fetch in flight completes successfully, and then it is exactly what
\* the fetch answered; a tick while a fetch is in flight leaves it as it is
\* and fires exactly the slots due in it.
C25_SnapshotOfLastFetch ==
  [][/\ schedule' # schedule =>
          /\ refreshInFlight
          /\ outstanding' = outstanding - 1
          /\ ~refreshInFlight'
          /\ error' = error
          /\ \E data \in Schedules : schedule' = Some(data)
     /\ (clockIdx' # clockIdx /\ refreshInFlight) =>
          /\ schedule' = schedule
          /\ refreshInFlight'
          /\ fired' = Events(DueKeys(schedule, now', settings, panicStopEnabled,
                                     pruneFired(firedRef, now')), "tick")]_vars

\* the second fetch is in flight, and the tick at the start of the
\* 10-minute window has fired the slot from the schedule of the first
C25_Witness ==
  /\ refreshInFlight
  /\ schedule # None
  /\ now = S1 - 10 * MinuteMs + 5000
  /\ TickEvent(FiredKey("helltide", 1, 1)) \in fired

(***************************************************************************)
(* Properties of the order of a fire and of the persisted registry.        *)
(***************************************************************************)
\* the positions of the operations of kind ops for key in the trace tr
At(tr, ops, key) ==
  {n \in DOMAIN tr : tr[n].key = key /\ tr[n].op \in ops}

\* C26: in every step that fires, by tick or by catch-up, the key was not
\* in the registry before, it is recorded and then persisted, and only
\* then the dispatch of its fire event (toast, audio cue, speech timer)
\* starts; after the step the key is in the registry and in its persisted
\* copy, whatever becomes of the side effects.
C26_RecordBeforeDispatch ==
  [][/\ \A e \in fired' :
          /\ e.key \notin DOMAIN firedRef
          /\ e.key \in DOMAIN firedRef'
          /\ store'.fired # None
          /\ store'.fired[1].kind = "object"
          /\ e.key \in DOMAIN store'.fired[1].map
          /\ store'.fired[1].map[e.key] = firedRef'[e.key]
          /\ \E r \in At(trace', {"record"}, e.key) :
                \E p \in At(trace', {"save"}, e.key) :
                   /\ r < p
                   /\ \A d \in At(trace', {"toast", "beep", "timer"}, e.key) :
                         p < d
     /\ ("toast-dispatch" \in fx' <=>
           \E n \in DOMAIN trace' : trace'[n].op = "toast")
     /\ (cues' # {} <=> \E n \in DOMAIN trace' : trace'[n].op = "beep")
     /\ \A n \in DOMAIN trace' : trace'[n].key \in KeysOf(fired')]_vars

\* the overlay window cannot be created; a tick has fired the 5-minute
\* slot: recorded, persisted, then toast, audio cue and speech timer
C26_Witness ==
  /\ channels.overlay = "unreachable"
  /\ fired = {TickEvent(FiredKey("helltide", 1, 2))}
  /\ Len(trace) = 5
  /\ trace[1].op = "record"
  /\ trace[5].op = "timer"
  /\ store.fired = Some(Json("object", firedRef))

\* C27: between any two handlers the persisted registry holds exactly the
\* entries of the registry in memory, and what a restart would load from it
\* is the registry in memory.
C27_PersistedEqualsMemory ==
  /\ store.fired # None
  /\ store.fired[1] = [kind |-> "object", map |-> firedRef]
  /\ ObjectEntries(loadFired(store.fired)) = firedRef

\* App has been restarted after a fire: the registry loaded holds the keys
\* fired before the restart
C27_Witness ==
  /\ firedBefore # {}
  /\ schedule = None
  /\ firedBefore \subseteq DOMAIN firedRef
  /\ \E k \in firedBefore : firedRef[k] = S1 - 30 * MinuteMs

\* C28: a tick in panic-stop fires nothing and records nothing, it only
\* prunes the registry; and a slot that has missed its window, during
\* panic-stop or otherwise, is not fired by the tick evaluator afterwards,
\* also not after the reset.
C28_NoRecordInPanic ==
  [][/\ (panicStopEnabled /\ clockIdx' # clockIdx) =>
          /\ fired' = {}
          /\ firedRef' = [k \in {h \in DOMAIN firedRef :
                                    firedRef[h] >= now' - 43200000}
                            |-> firedRef[k]]
          /\ panicStopEnabled'
     /\ \A t \in Types, i \in Slots :
          (Missed(t, i) /\ clockIdx' # clockIdx) =>
             TickEvent(MissedKey(t, i)) \notin fired'
     /\ (panicStopEnabled /\ ~panicStopEnabled') =>
          /\ fired' = {}
          /\ firedRef' = firedRef]_vars

\* in panic-stop a tick has run at the start of the window of the 5-minute
\* slot of the enabled category with the schedule loaded: nothing fired,
\* the key is not recorded
C28_Witness ==
  /\ panicStopEnabled
  /\ now = S1 - 5 * MinuteMs
  /\ schedule # None
  /\ findNext(schedule[1]["helltide"], now) = Some(Occ(1, Iso(S1)))
  /\ settings.categories["helltide"].enabled
  /\ fired = {}
  /\ FiredKey("helltide", 1, 2) \notin DOMAIN firedRef

(***************************************************************************)
(* Properties of the fire window under jitter.                             *)
(***************************************************************************)
\* occurrence id is in the list of category t
Listed(t, id) ==
  /\ schedule # None
  /\ \E n \in 1..Len(schedule[1][t]) : schedule[1][t][n].id = id

\* with the schedule loaded, the category enabled and panic-stop inactive,
\* occurrence id is the selected next occurrence of t and the window of
\* its active slot i lies ahead, inside the timeline
WindowAhead(t, id, i) ==
  /\ schedule # None
  /\ ~panicStopEnabled
  /\ settings.categories[t].enabled
  /\ i < settings.categories[t].timerCount
  /\ findNext(schedule[1][t], now) # None
  /\ findNext(schedule[1][t], now)[1].id = id
  /\ LET triggerAt == DateGetTime(findNext(schedule[1][t], now)[1].startTime)
                         - Lead(settings, t, i) * MinuteMs
     IN /\ now < triggerAt
        /\ triggerAt + 30000 <= BandInstants[Len(BandInstants)]

\* the key is recorded with an instant inside the window of its slot
FiredInsideWindow(t, id, i) ==
  /\ Listed(t, id)
  /\ FiredKey(t, id, i) \in DOMAIN firedRef
  /\ InsideWindow(schedule[1], settings, FiredKey(t, id, i),
                  firedRef[FiredKey(t, id, i)])

\* the keys of the slots whose window some schedule and some stored
\* settings place inside the timeline
BandKeys ==
  {k \in {FiredKey(t, id, i) : t \in Types, id \in 1..3, i \in Slots} :
     \E data \in Schedules, st \in StoredSettings(FALSE) :
        \E n \in 1..Len(data[k[1]]) :
           LET triggerAt == DateGetTime(data[k[1]][n].startTime)
                              - Lead(st, k[1], k[3]) * MinuteMs
           IN /\ data[k[1]][n].id = k[2]
              /\ data[k[1]][n].startTime.valid
              /\ BandInstants[1] <= triggerAt
              /\ triggerAt + 30000 <= BandInstants[Len(BandInstants)]}

\* C29: with ticks at most 30 s apart, the schedule loaded, the category
\* enabled and panic-stop inactive, every active slot whose window lies
\* ahead of the selected next occurrence fires on a tick inside the window,
\* unless a refresh takes the occurrence from the list first.
C29_FiresInsideWindow ==
  \A k \in BandKeys :
     WindowAhead(k[1], k[2], k[3])
       ~> (FiredInsideWindow(k[1], k[2], k[3]) \/ ~Listed(k[1], k[2]))

\* the tick before the window ran one millisecond early, the next one
\* 29.999 s into the window: it has fired the 30-minute slot
C29_Witness ==
  /\ now = T0 + 29999
  /\ TickEvent(FiredKey("helltide", 1, 0)) \in fired
  /\ firedRef[FiredKey("helltide", 1, 0)] = T0 + 29999

(***************************************************************************)
(* Properties of the selection of the next occurrence.                     *)
(***************************************************************************)
\* C30: every slot that fires belongs to an occurrence of its category
\* that starts after now, and no other occurrence of the category starts
\* after now and earlier; on a tick a category without a future
\* occurrence fires nothing, and the tick raises no error.
C30_OnlyNextOccurrence ==
  [][/\ \A e \in fired' :
          /\ schedule' # None
          /\ \E n \in Future(schedule'[1][e.key[1]], now') :
                /\ schedule'[1][e.key[1]][n].id = e.key[2]
                /\ \A m \in Future(schedule'[1][e.key[1]], now') :
                      schedule'[1][e.key[1]][n].startTime.ms
                        <= schedule'[1][e.key[1]][m].startTime.ms
     /\ (clockIdx' # clockIdx /\ schedule # None) =>
          /\ \A t \in Types :
                Future(schedule[1][t], now') = {} =>
                   \A e \in fired' : e.key[1] # t
          /\ ~failed'
          /\ error' = error
          /\ panicStopEnabled' = panicStopEnabled]_vars

\* now lies in the 30-minute window of the second occurrence of legion
\* while the first, 20 minutes earlier, has not started: the slot of the
\* second occurrence is not evaluated
C30_Witness ==
  /\ schedule # None
  /\ schedule[1]["legion"] = <<Occ(1, Iso(S1)), Occ(5, Iso(S1 + 20 * MinuteMs))>>
  /\ settings.categories["legion"].enabled
  /\ now = S1 - 10 * MinuteMs + 5000
  /\ InsideWindow(schedule[1], settings, FiredKey("legion", 5, 0), now)
  /\ FiredKey("legion", 5, 0) \notin DOMAIN firedRef
  /\ fired = {}


(***************************************************************************)
(* Properties of the catch-up when there is nothing to catch up.           *)
(***************************************************************************)
\* the step switches category t from enabled to disabled
DisableStep(t) ==
  settings.categories[t].enabled /\ ~settings'.categories[t].enabled

\* what is left until the next occurrence of t at a click skew ms after the
\* tick that set now
Left(t, skew) ==
  DateGetTime(findNext(schedule[1][t], now)[1].startTime) - (now + skew)

NoSchedule == schedule = None

NoNextOccurrence(t) == schedule # None /\ findNext(schedule[1][t], now) = None

NothingLeft(t, skew) ==
  /\ schedule # None
  /\ findNext(schedule[1][t], now) # None
  /\ Left(t, skew) <= 0

NothingOverdue(t, skew) ==
  /\ schedule # None
  /\ findNext(schedule[1][t], now) # None
  /\ Left(t, skew) > 0
  /\ Overdue(t, Left(t, skew)) = {}

\* the step records nothing, fires nothing and starts no cue, toast or
\* speech timer
NothingFired ==
  /\ fired' = {}
  /\ firedRef' = firedRef
  /\ store'.fired = store.fired
  /\ cues' = {}
  /\ trace' = << >>
  /\ fx' \cap {"beep", "toast-dispatch"} = {}
  /\ pendingSpeech' = pendingSpeech
  /\ async' = async

\* C31: the enable of a category leaves the registry unchanged and starts
\* nothing when no schedule is loaded, when the category has no next
\* occurrence, when remaining <= 0, or when no active slot has
\* leadMinutes * 60 s >= remaining; the disable of a category fires nothing.
C31_CatchUpNoOp ==
  [][\A t \in Types :
       /\ \A skew \in NowSkews :
            (EnableStep(t) /\ (\/ NoSchedule
                               \/ NoNextOccurrence(t)
                               \/ NothingLeft(t, skew)
                               \/ NothingOverdue(t, skew)))
              => NothingFired
       /\ DisableStep(t) => NothingFired]_vars

\* helltide is enabled after a click and the last tick was 200 ms before
\* the start of occurrence 1: whenever the click came (long before the
\* start, or with nothing left of the last second), it recorded nothing for
\* occurrence 1
C31_Witness ==
  /\ now = S1 - 200
  /\ budget > 0
  /\ schedule # None
  /\ findNext(schedule[1]["helltide"], now) # None
  /\ findNext(schedule[1]["helltide"], now)[1].id = 1
  /\ settings.categories["helltide"].enabled
  /\ settings.categories["helltide"].timerCount = 3
  /\ fired = {}
  /\ \A i \in Slots : FiredKey("helltide", 1, i) \notin DOMAIN firedRef


(***************************************************************************)
(* Properties of the auto-refresh timeouts.                                *)
(***************************************************************************)
\* the number of auto-refresh timeouts pending
Pending(timers) == (IF timers.held THEN 1 ELSE 0) + timers.loose

\* the step is a fetch resolving: refresh() has set error to null when it
\* started the fetch, and a rejection sets it
FetchResolves == outstanding' < outstanding /\ error' = None /\ ~failed'

\* C32: at most one auto-refresh timeout is pending at any time, and none
\* while panic-stop is active; entering panic-stop cancels the timeout and
\* leaves a fetch in flight as it is; a timeout is pending again after
\* panic-stop is cleared and after a fetch has resolved outside panic-stop.
C32_TimerDiscipline ==
  [][/\ Pending(autoRefreshTimer) <= 1
     /\ Pending(autoRefreshTimer') <= 1
     /\ panicStopEnabled' => Pending(autoRefreshTimer') = 0
     /\ (~panicStopEnabled /\ panicStopEnabled' /\ ~failed') =>
          /\ outstanding' = outstanding
          /\ refreshInFlight' = refreshInFlight
     /\ (panicStopEnabled /\ ~panicStopEnabled') =>
          Pending(autoRefreshTimer') = 1
     /\ (FetchResolves /\ ~panicStopEnabled) =>
          /\ Pending(autoRefreshTimer') = 1
          /\ autoRefreshTimer'.held]_vars

\* panic-stop was entered while the timeout was pending and the first fetch
\* in flight: no timeout is pending, the fetch is still in flight
C32_Witness ==
  /\ panicStopEnabled
  /\ ~failed
  /\ budget = 0
  /\ schedule = None
  /\ refreshInFlight
  /\ outstanding = 1
  /\ Pending(autoRefreshTimer) = 0
  /\ "error" \in fx


(***************************************************************************)
(* Properties of updateSettings.                                           *)
(***************************************************************************)
\* the step is a settings handler
Mutation == settings' # settings

\* the step is the emit of the oldest broadcast under way
Emit == Len(broadcasts'.queue) < Len(broadcasts.queue)

\* C33: every settings handler, whether or not its step fires a slot, saves
\* the new settings and starts a broadcast of them; the broadcasts already
\* under way keep the settings they were started with, and each emits the
\* snapshot of those, also when the settings have changed again since.
C33_MutationSavesAndBroadcasts ==
  [][/\ Mutation =>
          /\ store'.settings = settings'
          /\ broadcasts'.queue = Append(broadcasts.queue, settings')
     /\ Emit =>
          /\ broadcasts'.queue = Tail(broadcasts.queue)
          /\ settings' = settings
          /\ overlay.listening =>
                /\ overlay'.held =
                     Some(Reconcile(overlay.held[1],
                                    toOverlayWindowSettings(Head(broadcasts.queue))))
                /\ "overlay-settings" \in fx'
          /\ ~overlay.listening => overlay' = overlay]_vars

\* the enable of helltide has fired its catch-up, saved the new settings and
\* started their broadcast while the broadcast of the mount effect is still
\* under way
C33_Witness ==
  /\ \E e \in fired : e.by = "catchup"
  /\ settings.categories["helltide"].enabled
  /\ store.settings = settings
  /\ Len(broadcasts.queue) = 2
  /\ broadcasts.queue[2] = settings
  /\ broadcasts.queue[1] # settings


(***************************************************************************)
(* Properties of the startup from the two registry items.                  *)
(***************************************************************************)
\* nothing has happened since the page loaded but ticks without a schedule
AtStartup == budget = 0 /\ schedule = None /\ refreshInFlight /\ ~failed

\* what JSON.parse makes of an item that is present
Parsed(item) ==
  IF item[1].kind = "unparseable" THEN Json("object", << >>) ELSE item[1]

\* C34: loadFired returns what is stored under helltime:fired_v3 when that
\* item is present, and what is stored under helltime:fired_v2 only when it
\* is absent (nothing when both are); at startup the registry is what
\* pruneFired leaves of it, whichever item it came from; the legacy item is
\* never written.
C34_LegacyOnlyWhenCurrentAbsent ==
  LET current == call[1].current
      legacy == call[1].legacy
      loaded == IF current # None THEN Parsed(current)
                ELSE IF legacy # None THEN Parsed(legacy)
                ELSE Json("object", << >>)
  IN /\ ret # None => ret[1] = loaded
     /\ AtStartup => firedRef = pruneFired(ObjectEntries(loaded), now)
     /\ store.firedOld = legacy

\* the page has loaded more than 12 hours after the stale entry was written,
\* with no helltime:fired_v3 item: the registry is the legacy item without
\* its stale entry
C34_Witness ==
  /\ AtStartup
  /\ ret # None
  /\ call[1].current = None
  /\ call[1].legacy # None
  /\ firedRef = (LegacyKey(1, 0) :> RecentStamp)
  /\ store.fired = saveFired(firedRef)


(***************************************************************************)
(* Properties of the retention of the registry.                            *)
(***************************************************************************)
\* the largest lead time normalizeTimer lets through, in minutes
MaxLeadMinutes == 60

\* every occurrence the Schedule Source ever lists
AllOccurrences ==
  UNION {{data[t][n] : n \in 1..Len(data[t])} :
           t \in Types, data \in Schedules \cup CloseSchedules}

\* the start of the occurrence with this id
StartOfId(id) ==
  DateGetTime((CHOOSE o \in AllOccurrences :
                 o.id = id /\ IsFinite(DateGetTime(o.startTime))).startTime)

\* the keys the step records, and the keys it prunes
Recorded == DOMAIN firedRef' \ DOMAIN firedRef

Pruned == DOMAIN firedRef \ DOMAIN firedRef'

\* C35: a key is recorded within the 60 minutes before the start of its
\* occurrence; when a key is pruned the start of its occurrence has passed;
\* and no key fires that has fired before, pruned or not.
C35_PrunedOnlyAfterStart ==
  [][/\ \A k \in Recorded :
          /\ firedRef'[k] >= StartOfId(k[2]) - MaxLeadMinutes * MinuteMs
          /\ firedRef'[k] < StartOfId(k[2])
     /\ \A k \in Pruned : StartOfId(k[2]) <= now'
     /\ \A e \in fired' : e.key \notin DOMAIN fireCount]_vars

\* more than 12 hours after its slot fired a key of occurrence 1 is pruned
\* and the trigger effect has run again; a key recorded later is still kept
C35_Witness ==
  /\ \E k \in DOMAIN fireCount : k \notin DOMAIN firedRef /\ k[2] = 1
  /\ \E k \in DOMAIN fireCount : k \in DOMAIN firedRef
  /\ now > S1 + RetentionMs - MaxLeadMinutes * MinuteMs
  /\ schedule # None


(***************************************************************************)
(* The calls of ensureOverlayWindow.                                       *)
(***************************************************************************)
\* the promises of the creations in progress
InProgress(en) == {b.promise : b \in en.running}

\* the step is a call of ensureOverlayWindow
Called == ensure'.waiting # ensure.waiting /\ ensure.waiting \subseteq ensure'.waiting

\* the step settles a creation
Settled == \E b \in ensure.running : b.promise \notin InProgress(ensure')

\* C36: concurrent calls of ensureOverlayWindow share one creation.  At most
\* one creation is in progress; a call made while one is in progress starts
\* none and awaits the promise of the one in progress; the marker is set
\* exactly while a creation is in progress, and the step that settles a
\* creation, whether it made the window or failed, clears it; a creation
\* makes a window only where none exists and leaves an existing one as it
\* is (the window is the one Tauri keeps under the label "overlay").
C36_OneCreationInFlight ==
  [][/\ Cardinality(ensure'.running) <= 1
     /\ (ensure'.marker # None) = (ensure'.running # {})
     /\ Called /\ ensure.running # {}
          => /\ ensure'.running = ensure.running
             /\ \A w \in ensure'.waiting \ ensure.waiting :
                  w.promise \in InProgress(ensure)
     /\ Settled => ensure'.marker = None
     /\ overlay.exists /\ ensure'.running # ensure.running => overlay' = overlay
    ]_vars

\* the visibility effect and a toast await the same creation, which is in
\* progress
C36_Witness ==
  /\ Cardinality(ensure.running) = 1
  /\ \E v, t \in ensure.waiting :
       /\ v.op.kind = "vis"
       /\ t.op.kind = "toast"
       /\ v.promise = t.promise
       /\ v.promise \in InProgress(ensure)


(***************************************************************************)
(* The overlay window once the operations on it have run out.              *)
(***************************************************************************)
\* no operation is suspended at an await or a timer, no creation of the
\* window is in progress, no caller awaits one, no broadcast is on its way
Drained ==
  /\ async = {}
  /\ ensure.running = {}
  /\ ensure.waiting = {}
  /\ broadcasts.queue = << >>

\* what the settings ask for: the overview, overlay on, no panic-stop
OverviewWanted ==
  /\ settings.overlayWindowEnabled
  /\ settings.overlayWindowMode = "overview"
  /\ ~panicStopEnabled

\* C37: the visibility of the overlay window converges to the settings.
\* Once the pending asynchronous work has drained, the window is visible
\* if and only if the overlay is enabled, its mode is overview and
\* panic-stop is inactive.
C37_VisibilityConverges == Drained => (overlay.visible <=> OverviewWanted)

=============================================================================
